---- MODULE Spec2Model ----
(***************************************************************************)
(* Model of the Construction management application (Django).              *)
(*                                                                         *)
(*  - projects/management/commands/update_project_progress.py: the daily   *)
(*    snapshot command (EVM progress, SPI, CPI per project).               *)
(*  - projects/views.py: project_detail (the second EVM call site) and the *)
(*    expense views that feed it.                                          *)
(*  - reports/views.py, reports/models.py: the report request life cycle.  *)
(*                                                                         *)
(* Numbers.  Python floats are modelled as exact rationals <<n, d>> (d > 0, *)
(* lowest terms); round(x, k) is round-half-to-even on the exact value and *)
(* yields an integer count of hundredths (round(x, 1) yields a multiple of *)
(* ten hundredths).  Money is in whole currency units, dates are day       *)
(* numbers, None is the empty tuple and a present value v is <<v>>.        *)
(***************************************************************************)
EXTENDS Integers, Sequences, FiniteSets, TLC

VARIABLES
    now,        \* timezone.now().date(), a day number
    projects,   \* Project rows: id -> fields, with the project's activities and expenses
    detail,     \* id -> the project and context of the last project_detail response (None if stale)
    defaults,   \* id -> the project and defaults dict of the command's last pass (None if stale)
    snapshots,  \* ProjectProgressSnapshot rows
    runs,       \* one record per invocation of update_project_progress
    reports,    \* ReportRequest rows: id -> fields
    storage,    \* default_storage: the set of stored file paths
    requests,   \* one record per request to a view, in the order the requests were made
    expenses,   \* ProjectExpense rows: id -> fields
    partners,   \* Partner rows
    bookings,   \* SaleBooking rows: id -> fields
    buildings,  \* Building rows
    payments,   \* ProjectPayment rows
    users,      \* auth User rows: name -> fields
    sessions,   \* the sessions of the logged-in browsers
    settings,       \* settings.DEBUG and settings.ALLOWED_HOSTS of the running process
    charts      \* the monthly series a dashboard last computed

\* the state of the views that the snapshot, EVM and report specifications
\* leave alone
appvars == <<expenses, partners, bookings, buildings, payments, users, sessions, settings, charts>>

vars == <<now, projects, detail, defaults, snapshots, runs, reports, storage, requests,
          expenses, partners, bookings, buildings, payments, users, sessions, settings, charts>>

\* empty tables and settings, for the specifications that do not use them
InitApp ==
    /\ expenses = <<>>
    /\ partners = <<>>
    /\ bookings = <<>>
    /\ buildings = <<>>
    /\ payments = <<>>
    /\ users = <<>>
    /\ sessions = <<>>
    /\ settings = <<>>
    /\ charts = <<>>

-----------------------------------------------------------------------------
(* Bounds of the model *)

MaxDay == 2
MaxActs == 2
MaxExpenses == 1
MaxProjects == 2
MaxRuns == 2
LastDay == 1

Days == 0..MaxDay

-----------------------------------------------------------------------------
(* Optional values and exact arithmetic *)

None == <<>>
Some(v) == <<v>>
IsNone(x) == x = <<>>
Val(x) == x[1]

Max(a, b) == IF a >= b THEN a ELSE b
Min(a, b) == IF a <= b THEN a ELSE b
Abs(a) == IF a >= 0 THEN a ELSE 0 - a

RECURSIVE Gcd(_, _)
Gcd(a, b) == IF b = 0 THEN a ELSE Gcd(b, a % b)

\* the rational n/d in lowest terms (d > 0)
Rat(n, d) == LET g == Gcd(Abs(n), d) IN <<n \div g, d \div g>>
RAdd(x, y) == Rat(x[1] * y[2] + y[1] * x[2], x[2] * y[2])
RMul(x, y) == Rat(x[1] * y[1], x[2] * y[2])
RLe(x, y) == x[1] * y[2] <= y[1] * x[2]
RLt(x, y) == x[1] * y[2] < y[1] * x[2]
RMin(x, y) == IF RLe(x, y) THEN x ELSE y
RMax(x, y) == IF RLe(x, y) THEN y ELSE x
RZero == <<0, 1>>
ROne == <<1, 1>>

\* the integer nearest to n/d (n >= 0, d > 0), ties to the even one
RoundHalfEven(n, d) ==
    LET k == (2 * n) \div d
        tie == (2 * n) % d = 0
    IN  IF k % 2 = 0 THEN k \div 2
        ELSE IF tie /\ ((k - 1) \div 2) % 2 = 0 THEN (k - 1) \div 2
        ELSE (k + 1) \div 2

\* round(x, 2) in hundredths; the whole part is split off so that large
\* quotients stay within machine integers
Round2(x) ==
    LET whole == x[1] \div x[2]
        frac == x[1] % x[2]
    IN  100 * whole + RoundHalfEven(100 * frac, x[2])

\* round(x, 1), also in hundredths
Round1(x) ==
    LET whole == x[1] \div x[2]
        frac == x[1] % x[2]
    IN  10 * (10 * whole + RoundHalfEven(10 * frac, x[2]))

-----------------------------------------------------------------------------
(* Input domains *)

Durations == {0 - 1, 0, 1, 199}
Completions == {0, 50, 100}
OptDays == {None} \cup {Some(d) : d \in Days}
DateInputs == {<<None, None>>, <<Some(0), None>>} \cup {<<Some(s), Some(e)>> : s \in Days, e \in Days}

\* ScheduleActivity rows as the two call sites read them
ActivityInputs ==
    {[duration_days |-> d, completion_percentage |-> c, planned_start |-> se[1], planned_end |-> se[2]] :
        d \in Durations, c \in Completions, se \in DateInputs}

\* the activities of projects with more than one activity
CoreDateInputs == {<<None, None>>, <<Some(0), Some(0)>>, <<Some(0), Some(MaxDay)>>}
CoreActivityInputs == {a \in ActivityInputs : <<a.planned_start, a.planned_end>> \in CoreDateInputs}

Budgets == {0, 300, 20000}
ExpenseAmounts == {1, 301}

\* the activity lists of a project: none, any single activity, or up to
\* MaxActs core activities
ScheduleInputs ==
    {<<>>} \cup {<<a>> : a \in ActivityInputs}
           \cup UNION {[1..k -> CoreActivityInputs] : k \in 2..MaxActs}

-----------------------------------------------------------------------------
(* The EVM arithmetic of both call sites *)

\* eps = 1e-6, as its reciprocal
EpsInv == 1000000

RECURSIVE planned_total(_)
planned_total(acts) ==
    IF acts = <<>> THEN 0
    ELSE (IF Head(acts).duration_days > 0 THEN Head(acts).duration_days ELSE 0)
         + planned_total(Tail(acts))

duration(a) == Max(1, a.duration_days)

weight(a, pt) == Rat(duration(a), pt)

HasDates(a) == ~IsNone(a.planned_start) /\ ~IsNone(a.planned_end)

total_days(a) == Max(1, Val(a.planned_end) - Val(a.planned_start))

\* mutant of elapsed: the planned_start test comes first
elapsed_start_first(a, today) ==
    IF today <= Val(a.planned_start) THEN 0
    ELSE IF today >= Val(a.planned_end) THEN total_days(a)
    ELSE today - Val(a.planned_start)

elapsed(a, today) ==
    IF today >= Val(a.planned_end) THEN total_days(a)
    ELSE IF today <= Val(a.planned_start) THEN 0
    ELSE today - Val(a.planned_start)

\* min(1.0, max(0.0, elapsed / total_days))
planned_completion(a, today) ==
    LET e == elapsed(a, today)
        q == IF e >= 0 THEN Rat(e, total_days(a)) ELSE <<e, total_days(a)>>
    IN  RMin(ROne, RMax(RZero, q))

RECURSIVE earned(_, _)
earned(acts, pt) ==
    IF acts = <<>> THEN RZero
    ELSE RAdd(RMul(weight(Head(acts), pt), Rat(Head(acts).completion_percentage, 100)),
              earned(Tail(acts), pt))

RECURSIVE planned(_, _, _)
planned(acts, pt, today) ==
    IF acts = <<>> THEN RZero
    ELSE RAdd(IF HasDates(Head(acts))
                 THEN RMul(weight(Head(acts), pt), planned_completion(Head(acts), today))
                 ELSE RZero,
              planned(Tail(acts), pt, today))

\* x * EpsInv + y >= 0 and x * EpsInv + y = 0, without forming the product
GeZero(x, y) == x >= 0 - (y \div EpsInv)
EqZero(x, y) == y % EpsInv = 0 /\ x = 0 - (y \div EpsInv)

\* k * (B * EpsInv + C) <= 200 * (A * EpsInv + C)
SpiAtLeast(A, B, C, k) == GeZero(200 * A - k * B, (200 - k) * C)

\* the largest k in lo..hi-1 with SpiAtLeast (it holds at lo and fails at hi)
RECURSIVE SpiBisect(_, _, _, _, _)
SpiBisect(A, B, C, lo, hi) ==
    IF hi <= lo + 1 THEN lo
    ELSE LET mid == (lo + hi) \div 2
         IN  IF SpiAtLeast(A, B, C, mid) THEN SpiBisect(A, B, C, mid, hi)
             ELSE SpiBisect(A, B, C, lo, mid)

\* round((x + eps) / (y + eps), 2) in hundredths, for rationals x, y >= 0.
\* With x = A/C and y = B/C the quotient is (A * EpsInv + C) / (B * EpsInv + C);
\* for y = 0 it is x * EpsInv + 1.
RoundEpsQuotient(x, y) ==
    IF y[1] = 0 THEN Round2(RAdd(RMul(x, <<EpsInv, 1>>), ROne))
    ELSE
        LET C == (x[2] \div Gcd(x[2], y[2])) * y[2]
            A == x[1] * (C \div x[2])
            B == y[1] * (C \div y[2])
            q == (200 * A) \div B
            k == SpiBisect(A, B, C, Min(q, 200) - 1, Max(q, 200) + 1)
            tie == EqZero(200 * A - k * B, (200 - k) * C)
        IN  IF k % 2 = 0 THEN k \div 2
            ELSE IF tie /\ ((k - 1) \div 2) % 2 = 0 THEN (k - 1) \div 2
            ELSE (k + 1) \div 2

\* mutant of spi_of: planned over earned
spi_inverted(e, p) == RoundEpsQuotient(p, e)

\* spi = round((earned + eps) / (planned + eps), 2)
spi_of(e, p) == RoundEpsQuotient(e, p)

\* mutant of cost_progress: the cap at 100 is missing
cost_progress_unclamped(actual_cost, estimated_budget) ==
    RMul(Rat(actual_cost, estimated_budget), <<100, 1>>)

\* cost-based progress before rounding: min(100.0, actual_cost / estimated_budget * 100.0)
cost_progress(actual_cost, estimated_budget) ==
    RMin(<<100, 1>>, RMul(Rat(actual_cost, estimated_budget), <<100, 1>>))

\* mutant of cpi_of: actual over budget
cpi_inverted(actual_cost, estimated_budget) ==
    IF actual_cost > 0 /\ estimated_budget > 0
    THEN Some(Round2(Rat(actual_cost, estimated_budget)))
    ELSE None

\* lines 44-45 of the command, lines 118-119 of the view
cpi_of(actual_cost, estimated_budget) ==
    IF actual_cost > 0 /\ estimated_budget > 0
    THEN Some(Round2(Rat(estimated_budget, actual_cost)))
    ELSE None

\* Command.handle, lines 15-45: the defaults of the project's snapshot
CommandEVM(project, today) ==
    LET activities == project.activities
        pt == planned_total(activities)
        e == earned(activities, pt)
        p == planned(activities, pt, today)
        progress ==
            IF activities # <<>>
            THEN (IF pt > 0 THEN Round2(RMul(e, <<100, 1>>)) ELSE 0)
            ELSE (IF project.estimated_budget > 0
                  THEN Round2(cost_progress(project.actual_cost, project.estimated_budget))
                  ELSE 0)
        spi == IF activities # <<>> /\ pt > 0 THEN Some(spi_of(e, p)) ELSE None
    IN  [progress_percent |-> progress, spi |-> spi,
         cpi |-> cpi_of(project.actual_cost, project.estimated_budget)]

RECURSIVE SumSeq(_)
SumSeq(s) == IF s = <<>> THEN 0 ELSE Head(s) + SumSeq(Tail(s))

\* project_detail, lines 72-119: the analytics of the context; the project
\* passed in already carries actual_cost = total_expenses (lines 77-78)
DetailEVM(project, today) ==
    LET activities == project.activities
        pt == planned_total(activities)
        earned_weight == earned(activities, pt)
        planned_weight == planned(activities, pt, today)
        overall_progress ==
            IF activities # <<>>
            THEN (IF pt > 0 THEN Round1(RMul(earned_weight, <<100, 1>>)) ELSE 0)
            ELSE (IF project.estimated_budget > 0
                  THEN Round1(cost_progress(project.actual_cost, project.estimated_budget))
                  ELSE 0)
        spi == IF activities # <<>> /\ pt > 0 THEN Some(spi_of(earned_weight, planned_weight)) ELSE None
    IN  [overall_progress |-> overall_progress, spi |-> spi,
         cpi |-> cpi_of(project.actual_cost, project.estimated_budget),
         total_expenses |-> SumSeq(project.expenses)]

-----------------------------------------------------------------------------
(* The EVM specification: one project, its activities drawn from the input *)
(* domain, and the two call sites applied to it                            *)

ProjectInputs ==
    {[estimated_budget |-> b, actual_cost |-> 0, activities |-> acts, expenses |-> <<>>] :
        b \in Budgets, acts \in ScheduleInputs}

InitEVM ==
    /\ now = 0
    /\ \E p \in ProjectInputs : projects = (1 :> p)
    /\ detail = (1 :> None)
    /\ defaults = (1 :> None)
    /\ snapshots = {}
    /\ runs = <<>>
    /\ reports = <<>>
    /\ storage = {}
    /\ requests = <<>>
    /\ InitApp

OtherEVM == UNCHANGED <<snapshots, runs, reports, storage, requests, appvars>>

\* expense_create, POST with a valid form: the expense is saved and the
\* project's stored actual_cost is left as it was
expense_create(id, amount) ==
    /\ id \in DOMAIN projects
    /\ Len(projects[id].expenses) < MaxExpenses
    /\ projects' = [projects EXCEPT ![id].expenses = Append(@, amount)]
    /\ detail' = [detail EXCEPT ![id] = None]
    /\ defaults' = [defaults EXCEPT ![id] = None]
    /\ UNCHANGED now
    /\ OtherEVM

\* mutant of total_expenses: the stored cost is taken for the sum
total_expenses_stored(project) == project.actual_cost

\* total_expenses = sum(expense.amount for expense in expenses)
total_expenses(project) == SumSeq(project.expenses)

\* project_detail: actual_cost is set to the sum of the expenses and saved,
\* then the analytics are computed for today
project_detail(id) ==
    /\ id \in DOMAIN projects
    /\ LET project == [projects[id] EXCEPT !.actual_cost = total_expenses(projects[id])]
       IN  /\ projects' = [projects EXCEPT ![id] = project]
           /\ detail' = [detail EXCEPT ![id] =
                             Some([project |-> project, context |-> DetailEVM(project, now)])]
    /\ UNCHANGED <<now, defaults>>
    /\ OtherEVM

\* one iteration of the command's loop up to the defaults of line 50
handle_project(id) ==
    /\ id \in DOMAIN projects
    /\ defaults' = [defaults EXCEPT ![id] =
                         Some([project |-> projects[id], values |-> CommandEVM(projects[id], now)])]
    /\ UNCHANGED <<now, projects, detail>>
    /\ OtherEVM

\* the date changes: earlier results are for another day
Tick ==
    /\ now < MaxDay
    /\ now' = now + 1
    /\ detail' = [id \in DOMAIN detail |-> None]
    /\ defaults' = [id \in DOMAIN defaults |-> None]
    /\ UNCHANGED projects
    /\ OtherEVM

NextEVM ==
    \/ \E id \in DOMAIN projects, amount \in ExpenseAmounts : expense_create(id, amount)
    \/ \E id \in DOMAIN projects : project_detail(id)
    \/ \E id \in DOMAIN projects : handle_project(id)
    \/ Tick

SpecEVM == InitEVM /\ [][NextEVM]_vars

-----------------------------------------------------------------------------
(* The snapshot specification: update_project_progress runs, possibly at   *)
(* the same time, over a database of projects                              *)

\* max_digits = 6, decimal_places = 2: a stored value is below 10^4, that is
\* below 10^6 hundredths
DecimalLimit == 1000000

Fits(d) ==
    /\ d.progress_percent < DecimalLimit
    /\ IsNone(d.spi) \/ Val(d.spi) < DecimalLimit
    /\ IsNone(d.cpi) \/ Val(d.cpi) < DecimalLimit

\* Saving a row with a value the column cannot hold raises (the decimal
\* context or the database rejects it) or, on a backend that does not
\* enforce the column's precision, stores the value.
SaveOutcomes(d) == IF Fits(d) THEN {"stored"} ELSE {"stored", "raised"}

SnapActivity(c, se) ==
    [duration_days |-> 1, completion_percentage |-> c, planned_start |-> se[1], planned_end |-> se[2]]

\* the projects of the snapshot specification: without activities, with an
\* activity that is planned to be over, with an activity without planned dates
SnapProjectInputs ==
    {[estimated_budget |-> 0, actual_cost |-> 0, activities |-> acts, expenses |-> <<>>] :
        acts \in {<<>>, <<SnapActivity(50, <<Some(0), Some(0)>>)>>, <<SnapActivity(50, <<None, None>>)>>}}

RunIds == 1..MaxRuns
SnapKeys == (1..MaxProjects) \X (0..LastDay)

IdleRun ==
    [pc |-> "idle", today |-> 0, todo |-> <<>>, created |-> 0, updated |-> 0,
     defaults |-> None, after |-> {}]

Init ==
    /\ now = 0
    /\ projects \in UNION {[1..k -> SnapProjectInputs] : k \in 0..MaxProjects}
    /\ detail = <<>>
    /\ defaults = <<>>
    /\ snapshots = [key \in SnapKeys |-> <<>>]
    /\ runs = [r \in RunIds |-> IdleRun]
    /\ reports = <<>>
    /\ storage = {}
    /\ requests = <<>>
    /\ InitApp

OtherSnap == UNCHANGED <<detail, defaults, reports, storage, requests, appvars>>

\* mutant of insert_allowed: the table has no unique_together
insert_always(rows) == TRUE

\* unique_together = (project, snapshot_date): an INSERT succeeds only if
\* the key has no row
insert_allowed(rows) == rows = <<>>

\* lines 11-14: today is read once, the projects are listed
start(r) ==
    /\ runs[r].pc = "idle"
    /\ runs' = [runs EXCEPT ![r] =
                   [pc |-> IF Len(projects) = 0 THEN "done" ELSE "get",
                    today |-> now,
                    todo |-> [i \in 1..Len(projects) |-> i],
                    created |-> 0, updated |-> 0, defaults |-> None,
                    after |-> {q \in RunIds : runs[q].pc = "done"}]]
    /\ UNCHANGED <<now, projects, snapshots>>
    /\ OtherSnap

\* the run goes on to the next project, or ends with line 57
advance(run, created_flag) ==
    [run EXCEPT !.pc = IF Tail(run.todo) = <<>> THEN "done" ELSE "get",
                !.todo = Tail(run.todo),
                !.created = IF created_flag THEN @ + 1 ELSE @,
                !.updated = IF created_flag THEN @ ELSE @ + 1,
                !.defaults = None]

\* lines 15-51, first half: the defaults are computed and update_or_create
\* looks the row up; a row that exists is updated under its row lock
compute_and_get(r) ==
    /\ runs[r].pc = "get"
    /\ LET project == Head(runs[r].todo)
           key == <<project, runs[r].today>>
           d == CommandEVM(projects[project], runs[r].today)
       IN  IF snapshots[key] # <<>>
           THEN \E outcome \in SaveOutcomes(d) :
                    IF outcome = "stored"
                    THEN /\ snapshots' = [snapshots EXCEPT ![key][1] = d]
                         /\ runs' = [runs EXCEPT ![r] = advance(@, FALSE)]
                    ELSE /\ runs' = [runs EXCEPT ![r].pc = "crashed"]
                         /\ UNCHANGED snapshots
           ELSE /\ runs' = [runs EXCEPT ![r].pc = "create", ![r].defaults = Some(d)]
                /\ UNCHANGED snapshots
    /\ UNCHANGED <<now, projects>>
    /\ OtherSnap

\* lines 47-55, second half: update_or_create inserts the row; when another
\* run inserted it meanwhile the IntegrityError is caught and that row is
\* updated instead
create(r) ==
    /\ runs[r].pc = "create"
    /\ LET project == Head(runs[r].todo)
           key == <<project, runs[r].today>>
           d == Val(runs[r].defaults)
       IN  \E outcome \in SaveOutcomes(d) :
               IF outcome = "raised"
               THEN /\ runs' = [runs EXCEPT ![r].pc = "crashed"]
                    /\ UNCHANGED snapshots
               ELSE IF insert_allowed(snapshots[key])
               THEN /\ snapshots' = [snapshots EXCEPT ![key] = Append(@, d)]
                    /\ runs' = [runs EXCEPT ![r] = advance(@, TRUE)]
               ELSE /\ snapshots' = [snapshots EXCEPT ![key][1] = d]
                    /\ runs' = [runs EXCEPT ![r] = advance(@, FALSE)]
    /\ UNCHANGED <<now, projects>>
    /\ OtherSnap

\* an activity's completion_percentage is edited between or during runs
activity_progress(id) ==
    /\ id \in DOMAIN projects
    /\ projects[id].activities # <<>>
    /\ projects[id].activities[1].completion_percentage = 50
    /\ projects' = [projects EXCEPT ![id].activities[1].completion_percentage = 100]
    /\ UNCHANGED <<now, snapshots, runs>>
    /\ OtherSnap

\* the date changes
midnight ==
    /\ now < LastDay
    /\ now' = now + 1
    /\ UNCHANGED <<projects, snapshots, runs>>
    /\ OtherSnap

Next ==
    \/ \E r \in RunIds : start(r)
    \/ \E r \in RunIds : compute_and_get(r)
    \/ \E r \in RunIds : create(r)
    \/ \E id \in DOMAIN projects : activity_progress(id)
    \/ midnight

Spec == Init /\ [][Next]_vars

-----------------------------------------------------------------------------
(* The reports specification: requests to create_report_request,           *)
(* download_report and delete_report, which may overlap                    *)

MaxReports == 2
MaxRequests == 3

Users == {"alice", "bob"}
Formats == {"pdf", "excel", "csv"}

\* request.method and the POST fields create_report_request reads
\* request.POST.getlist('project_ids'), already converted with int()
ProjectIdInputs == {<<>>, <<1>>}

CreateInputs ==
    {[method |-> "GET", report_type |-> "", format |-> "", project_ids |-> <<>>]}
    \cup {[method |-> "POST", report_type |-> t, format |-> f, project_ids |-> <<>>] :
             t \in {"", "custom"}, f \in Formats \cup {""}}
    \cup {[method |-> "POST", report_type |-> "custom", format |-> f, project_ids |-> ids] :
             f \in Formats, ids \in ProjectIdInputs}

\* file_path = '' of a report without a file
NoPath == <<>>

\* lines 159-174: the generator and the extension chosen for a format
generator(format) ==
    IF format = "pdf" THEN "generate_pdf_report"
    ELSE IF format = "excel" THEN "generate_excel_report"
    ELSE "generate_csv_report"

file_extension(format) ==
    IF format = "pdf" THEN "pdf"
    ELSE IF format = "excel" THEN "xlsx"
    ELSE "csv"

\* lines 112-117: the Content-Type of a download
content_type(format) ==
    IF format = "pdf" THEN "application/pdf"
    ELSE IF format = "excel"
    THEN "application/vnd.openxmlformats-officedocument.spreadsheetml.sheet"
    ELSE "text/csv"

\* line 121: the extension of the download's filename
download_extension(format) == format

\* mutant of is_completed: the status is not looked at
is_completed_any(report) == TRUE

is_completed(report) == report.status = "completed"

mark_completed(report, file_path) ==
    [report EXCEPT !.status = "completed",
                   !.file_path = IF file_path # NoPath THEN file_path ELSE @]

\* mutant of mark_failed: the status is left as it is
mark_failed_forgotten(report) == report

mark_failed(report) == [report EXCEPT !.status = "failed"]

\* default_storage.exists
exists(files, name) == \E f \in files : f.name = name

\* report_request.save(): the row with the object's id takes the object's fields
save(rows, id, report) == [rows EXCEPT ![id] = Some(report)]

NoResponse == [kind |-> "", message |-> "", content_type |-> "", extension |-> "", content |-> ""]
Redirect(message) == [NoResponse EXCEPT !.kind = "redirect", !.message = message]
NotFound == [NoResponse EXCEPT !.kind = "404"]

\* get_report_data (reports/utils.py): the projects a report is made from are
\* those of the report's user, narrowed to project_ids when any are given
get_report_data(user, project_ids) ==
    {id \in DOMAIN projects :
        /\ ~IsNone(projects[id])
        /\ Val(projects[id]).created_by = user
        /\ project_ids # <<>> => \E i \in DOMAIN project_ids : project_ids[i] = id}

\* lines 148-196 of generate_and_save_report, for the object already marked
\* as processing: the file is generated and stored and the report marked
\* completed, or an exception marks it failed and is raised again.  The
\* result is the object, the rows, the files, the statuses saved and whether
\* the call raised.
generate_file(rows, files, id, report, stamp, outcome) ==
    LET saved_path == <<id, stamp, file_extension(report.format)>>
        completed == mark_completed(report, saved_path)
        failed == mark_failed(report)
    IN  IF outcome = "generated"
        THEN [report_request |-> completed,
              rows |-> save(rows, id, completed),
              files |-> files \cup
                  {[name |-> saved_path,
                    content |-> [generator |-> generator(report.format),
                                 projects |-> get_report_data(report.user, report.project_ids)]]},
              trail |-> <<completed.status>>,
              raised |-> FALSE]
        ELSE [report_request |-> failed,
              rows |-> save(rows, id, failed),
              files |-> files,
              trail |-> <<failed.status>>,
              raised |-> TRUE]

\* lines 145-146
processing(report) == [report EXCEPT !.status = "processing"]

\* generate_and_save_report as one call
generate_and_save_report(rows, files, id, report, stamp, outcome) ==
    LET g == generate_file(save(rows, id, processing(report)), files, id,
                           processing(report), stamp, outcome)
    IN  [g EXCEPT !.trail = <<"processing">> \o @]

\* the outcomes of generating a file: it is produced, or get_report_data, the
\* generator (a library that is not installed) or the storage raises
GenerateOutcomes == {"generated", "exception"}

NoRequest ==
    [view |-> "", user |-> "", pc |-> "returned", report_id |-> 0, loaded |-> None,
     report_request |-> None, trail |-> <<>>, response |-> NoResponse]

InitReports ==
    /\ now = 0
    /\ projects = <<>>
    /\ detail = <<>>
    /\ defaults = <<>>
    /\ snapshots = <<>>
    /\ runs = <<>>
    /\ reports = <<>>
    /\ storage = {}
    /\ requests = <<>>
    /\ InitApp

OtherReports == UNCHANGED <<now, projects, detail, defaults, snapshots, runs, appvars>>

\* create_report_request up to line 74: a request that is not a POST or lacks
\* a field is redirected; otherwise the ReportRequest is created as pending
create_report_request(user, input) ==
    /\ Len(requests) < MaxRequests
    /\ IF input.method # "POST"
       THEN /\ requests' = Append(requests,
                    [NoRequest EXCEPT !.view = "create_report_request", !.user = user,
                                      !.response = Redirect("")])
            /\ UNCHANGED reports
       ELSE IF input.report_type = "" \/ input.format = ""
       THEN /\ requests' = Append(requests,
                    [NoRequest EXCEPT !.view = "create_report_request", !.user = user,
                                      !.response = Redirect("error")])
            /\ UNCHANGED reports
       ELSE /\ Len(reports) < MaxReports
            /\ LET report_request ==
                       [user |-> user, report_type |-> input.report_type,
                        format |-> input.format, project_ids |-> input.project_ids,
                        status |-> "pending", file_path |-> NoPath]
               IN  /\ reports' = Append(reports, Some(report_request))
                   /\ requests' = Append(requests,
                          [NoRequest EXCEPT !.view = "create_report_request", !.user = user,
                                            !.pc = "created",
                                            !.report_id = Len(reports) + 1,
                                            !.report_request = Some(report_request),
                                            !.trail = <<report_request.status>>])
    /\ UNCHANGED storage
    /\ OtherReports

\* lines 145-146, called from line 78
mark_processing(q) ==
    /\ q \in DOMAIN requests
    /\ requests[q].pc = "created"
    /\ LET report_request == processing(Val(requests[q].report_request))
       IN  /\ reports' = save(reports, requests[q].report_id, report_request)
           /\ requests' = [requests EXCEPT ![q].pc = "processing",
                                           ![q].report_request = Some(report_request),
                                           ![q].trail = Append(@, report_request.status)]
    /\ UNCHANGED storage
    /\ OtherReports

\* lines 148-196 and back in create_report_request lines 79-84: the file is
\* generated, or the exception marks the report failed (line 195, and line 81
\* again), and the request is redirected to the dashboard
finish_report_request(q) ==
    /\ q \in DOMAIN requests
    /\ requests[q].pc = "processing"
    /\ \E outcome \in GenerateOutcomes :
           LET g == generate_file(reports, storage, requests[q].report_id,
                                  Val(requests[q].report_request), now, outcome)
               report_request == IF g.raised THEN mark_failed(g.report_request)
                                 ELSE g.report_request
           IN  /\ reports' = IF g.raised
                             THEN save(g.rows, requests[q].report_id, report_request)
                             ELSE g.rows
               /\ storage' = g.files
               /\ requests' = [requests EXCEPT
                      ![q].pc = "returned",
                      ![q].report_request = Some(report_request),
                      ![q].trail = IF g.raised THEN @ \o g.trail \o <<report_request.status>>
                                   ELSE @ \o g.trail,
                      ![q].response = Redirect(IF g.raised THEN "error" ELSE "success")]
    /\ OtherReports

\* get_object_or_404(ReportRequest, id = report_id, user = request.user)
get_object(user, report_id) ==
    IF report_id \in DOMAIN reports /\ ~IsNone(reports[report_id])
          /\ Val(reports[report_id]).user = user
    THEN reports[report_id]
    ELSE None

\* default_storage.open(file_path).read()
read(files, name) == (CHOOSE f \in files : f.name = name).content

\* lines 109-123: the response that carries the file
FileResponse(files, report) ==
    [kind |-> "content", message |-> "",
     content_type |-> content_type(report.format),
     extension |-> download_extension(report.format),
     content |-> read(files, report.file_path)]

\* download_report: a report that is not completed or has no file_path is
\* refused; a completed one is served from its file, which is generated
\* again when it is missing
download_report(user, report_id) ==
    /\ Len(requests) < MaxRequests
    /\ LET found == get_object(user, report_id)
           request == [NoRequest EXCEPT !.view = "download_report", !.user = user,
                                        !.report_id = report_id, !.loaded = found,
                                        !.report_request = found]
       IN  IF IsNone(found)
           THEN /\ requests' = Append(requests, [request EXCEPT !.response = NotFound])
                /\ UNCHANGED <<reports, storage>>
           ELSE IF ~is_completed(Val(found)) \/ Val(found).file_path = NoPath
           THEN /\ requests' = Append(requests, [request EXCEPT !.response = Redirect("error")])
                /\ UNCHANGED <<reports, storage>>
           ELSE IF exists(storage, Val(found).file_path)
           THEN /\ requests' = Append(requests,
                        [request EXCEPT !.response = FileResponse(storage, Val(found))])
                /\ UNCHANGED <<reports, storage>>
           ELSE \E outcome \in GenerateOutcomes :
                    LET g == generate_and_save_report(reports, storage, report_id,
                                                      Val(found), now, outcome)
                    IN  /\ reports' = g.rows
                        /\ storage' = g.files
                        /\ requests' = Append(requests,
                               [request EXCEPT
                                   !.report_request = Some(g.report_request),
                                   !.trail = g.trail,
                                   !.response = IF g.raised THEN Redirect("error")
                                                ELSE FileResponse(g.files, g.report_request)])
    /\ OtherReports

\* delete_report: the file, if the report has one that exists, and the row
\* are deleted
delete_report(user, report_id) ==
    /\ Len(requests) < MaxRequests
    /\ LET found == get_object(user, report_id)
           request == [NoRequest EXCEPT !.view = "delete_report", !.user = user,
                                        !.report_id = report_id, !.loaded = found]
       IN  IF IsNone(found)
           THEN /\ requests' = Append(requests, [request EXCEPT !.response = NotFound])
                /\ UNCHANGED <<reports, storage>>
           ELSE /\ storage' = IF Val(found).file_path # NoPath
                              THEN {f \in storage : f.name # Val(found).file_path}
                              ELSE storage
                /\ reports' = [reports EXCEPT ![report_id] = None]
                /\ requests' = Append(requests, [request EXCEPT !.response = Redirect("success")])
    /\ OtherReports

\* a stored file goes missing (the case lines 99-103 of download_report handle)
file_missing(f) ==
    /\ f \in storage
    /\ storage' = storage \ {f}
    /\ UNCHANGED <<reports, requests>>
    /\ OtherReports

NextReports ==
    \/ \E user \in Users, input \in CreateInputs : create_report_request(user, input)
    \/ \E q \in DOMAIN requests : mark_processing(q)
    \/ \E q \in DOMAIN requests : finish_report_request(q)
    \/ \E user \in Users, report_id \in 1..MaxReports : download_report(user, report_id)
    \/ \E user \in Users, report_id \in 1..MaxReports : delete_report(user, report_id)
    \/ \E f \in storage : file_missing(f)

SpecReports == InitReports /\ [][NextReports]_vars

-----------------------------------------------------------------------------
(* The views specification: requests of the users to the project, expense, *)
(* booking and report views over a database that holds records of both     *)
(* users.  Each view handles its request in one step                       *)

MaxViewRequests == 2

\* the ids a URL can name: the rows of the initial database
ViewIds == 1..2

NewBudget == 20000
NewAmount == 301

\* what a form submits: nothing (the page is only requested), fields that
\* do not validate, or valid fields
FormInputs == {"GET", "POST invalid", "POST valid"}
Methods == {"GET", "POST"}

\* the response of a view: a 404, a rendered page or a redirect, with the
\* records whose data the page shows
ViewResponse(kind, message, shown) == [kind |-> kind, message |-> message, shown |-> shown]
Http404 == ViewResponse("404", "", {})

ViewRequest(view, user, input, project_id, record_id, response) ==
    [view |-> view, user |-> user, pc |-> "returned", input |-> input,
     project_id |-> project_id, record_id |-> record_id, response |-> response]

\* mutant of is_post: every method deletes
is_post_any(method) == TRUE

\* request.method == 'POST'
is_post(method) == method = "POST"

\* mutant of get_project: the owner is not looked at
get_project_any(user, project_id) ==
    IF project_id \in DOMAIN projects THEN projects[project_id] ELSE None

\* get_object_or_404(Project, id = project_id, created_by = request.user)
get_project(user, project_id) ==
    IF project_id \in DOMAIN projects /\ ~IsNone(projects[project_id])
          /\ Val(projects[project_id]).created_by = user
    THEN projects[project_id]
    ELSE None

\* get_object_or_404(ProjectExpense, id = expense_id, project = project)
get_expense(project_id, expense_id) ==
    IF expense_id \in DOMAIN expenses /\ ~IsNone(expenses[expense_id])
          /\ Val(expenses[expense_id]).project = project_id
    THEN expenses[expense_id]
    ELSE None

\* ProjectExpense.objects.filter(project = project): the ids of the rows
expenses_of(project_id) ==
    {e \in DOMAIN expenses : ~IsNone(expenses[e]) /\ Val(expenses[e]).project = project_id}

RECURSIVE SumAmounts(_)
SumAmounts(ids) ==
    IF ids = {} THEN 0
    ELSE LET e == CHOOSE x \in ids : TRUE
         IN  Val(expenses[e]).amount + SumAmounts(ids \ {e})

InitViews ==
    /\ now = 0
    /\ projects = <<Some([created_by |-> "alice", estimated_budget |-> 300, actual_cost |-> 0]),
                    Some([created_by |-> "bob", estimated_budget |-> 300, actual_cost |-> 0])>>
    /\ expenses = <<Some([project |-> 1, amount |-> 1]), Some([project |-> 2, amount |-> 1])>>
    /\ bookings = <<Some([sales_person |-> "alice"]), Some([sales_person |-> "bob"])>>
    /\ partners = <<>>
    /\ reports = <<Some([user |-> "alice", report_type |-> "custom", format |-> "csv",
                         project_ids |-> <<>>, status |-> "completed",
                         file_path |-> <<1, 0, "csv">>])>>
    /\ storage = {[name |-> <<1, 0, "csv">>,
                   content |-> [generator |-> "generate_csv_report", projects |-> {1}]]}
    /\ requests = <<>>
    /\ detail = <<>>
    /\ defaults = <<>>
    /\ snapshots = <<>>
    /\ runs = <<>>
    /\ buildings = <<>>
    /\ payments = <<>>
    /\ users = <<>>
    /\ sessions = <<>>
    /\ settings = <<>>
    /\ charts = <<>>

\* what the project, expense and booking views leave alone
OtherViews ==
    UNCHANGED <<now, detail, defaults, snapshots, runs, reports, storage,
                buildings, payments, users, sessions, settings, charts>>

\* project_detail for a user: the stored actual_cost is refreshed from the
\* project's expenses and the page shows the project and its expenses
project_detail_view(user, project_id) ==
    /\ Len(requests) < MaxViewRequests
    /\ LET project == get_project(user, project_id)
       IN  IF IsNone(project)
           THEN /\ requests' = Append(requests,
                       ViewRequest("project_detail", user, "GET", project_id, 0, Http404))
                /\ UNCHANGED projects
           ELSE LET total == SumAmounts(expenses_of(project_id))
                IN  /\ projects' = [projects EXCEPT ![project_id] =
                                       Some([Val(project) EXCEPT !.actual_cost = total])]
                    /\ requests' = Append(requests,
                           ViewRequest("project_detail", user, "GET", project_id, 0,
                               ViewResponse("render", "",
                                   {<<"project", project_id>>}
                                   \cup {<<"expense", e>> : e \in expenses_of(project_id)})))
    /\ UNCHANGED <<expenses, partners, bookings>>
    /\ OtherViews

\* edit_project: a valid POST saves the form's fields, anything else shows the form
edit_project(user, input, project_id) ==
    /\ Len(requests) < MaxViewRequests
    /\ LET project == get_project(user, project_id)
       IN  IF IsNone(project)
           THEN /\ requests' = Append(requests,
                       ViewRequest("edit_project", user, input, project_id, 0, Http404))
                /\ UNCHANGED projects
           ELSE IF input = "POST valid"
           THEN /\ projects' = [projects EXCEPT ![project_id] =
                                   Some([Val(project) EXCEPT !.estimated_budget = NewBudget])]
                /\ requests' = Append(requests,
                       ViewRequest("edit_project", user, input, project_id, 0,
                           ViewResponse("redirect", "success", {})))
           ELSE /\ requests' = Append(requests,
                       ViewRequest("edit_project", user, input, project_id, 0,
                           ViewResponse("render", IF input = "GET" THEN "" ELSE "error",
                                        {<<"project", project_id>>})))
                /\ UNCHANGED projects
    /\ UNCHANGED <<expenses, partners, bookings>>
    /\ OtherViews

\* delete_project: a POST deletes the project, and with it the rows that
\* refer to it; any other method shows the confirmation page
delete_project(user, method, project_id) ==
    /\ Len(requests) < MaxViewRequests
    /\ LET project == get_project(user, project_id)
       IN  IF IsNone(project)
           THEN /\ requests' = Append(requests,
                       ViewRequest("delete_project", user, method, project_id, 0, Http404))
                /\ UNCHANGED <<projects, expenses, partners>>
           ELSE IF is_post(method)
           THEN /\ projects' = [projects EXCEPT ![project_id] = None]
                /\ expenses' = [e \in DOMAIN expenses |->
                                   IF e \in expenses_of(project_id) THEN None ELSE expenses[e]]
                /\ partners' = SelectSeq(partners, LAMBDA p : p.project # project_id)
                /\ requests' = Append(requests,
                       ViewRequest("delete_project", user, method, project_id, 0,
                           ViewResponse("redirect", "success", {})))
           ELSE /\ requests' = Append(requests,
                       ViewRequest("delete_project", user, method, project_id, 0,
                           ViewResponse("render", "", {<<"project", project_id>>})))
                /\ UNCHANGED <<projects, expenses, partners>>
    /\ UNCHANGED bookings
    /\ OtherViews

\* expense_create for a user: a valid POST adds an expense to the project
expense_create_view(user, input, project_id) ==
    /\ Len(requests) < MaxViewRequests
    /\ LET project == get_project(user, project_id)
       IN  IF IsNone(project)
           THEN /\ requests' = Append(requests,
                       ViewRequest("expense_create", user, input, project_id, 0, Http404))
                /\ UNCHANGED expenses
           ELSE IF input = "POST valid"
           THEN /\ expenses' = Append(expenses, Some([project |-> project_id, amount |-> NewAmount]))
                /\ requests' = Append(requests,
                       ViewRequest("expense_create", user, input, project_id, Len(expenses) + 1,
                           ViewResponse("redirect", "success", {})))
           ELSE /\ requests' = Append(requests,
                       ViewRequest("expense_create", user, input, project_id, 0,
                           ViewResponse("render", IF input = "GET" THEN "" ELSE "error",
                                        {<<"project", project_id>>})))
                /\ UNCHANGED expenses
    /\ UNCHANGED <<projects, partners, bookings>>
    /\ OtherViews

\* expense_edit: the expense is looked up within the user's project
expense_edit(user, input, project_id, expense_id) ==
    /\ Len(requests) < MaxViewRequests
    /\ LET project == get_project(user, project_id)
           expense == get_expense(project_id, expense_id)
       IN  IF IsNone(project) \/ IsNone(expense)
           THEN /\ requests' = Append(requests,
                       ViewRequest("expense_edit", user, input, project_id, expense_id, Http404))
                /\ UNCHANGED expenses
           ELSE IF input = "POST valid"
           THEN /\ expenses' = [expenses EXCEPT ![expense_id] =
                                   Some([Val(expense) EXCEPT !.amount = NewAmount])]
                /\ requests' = Append(requests,
                       ViewRequest("expense_edit", user, input, project_id, expense_id,
                           ViewResponse("redirect", "success", {})))
           ELSE /\ requests' = Append(requests,
                       ViewRequest("expense_edit", user, input, project_id, expense_id,
                           ViewResponse("render", IF input = "GET" THEN "" ELSE "error",
                                        {<<"project", project_id>>, <<"expense", expense_id>>})))
                /\ UNCHANGED expenses
    /\ UNCHANGED <<projects, partners, bookings>>
    /\ OtherViews

\* expense_delete: a POST deletes the expense; every method is redirected to
\* the project's page
expense_delete(user, method, project_id, expense_id) ==
    /\ Len(requests) < MaxViewRequests
    /\ LET project == get_project(user, project_id)
           expense == get_expense(project_id, expense_id)
       IN  IF IsNone(project) \/ IsNone(expense)
           THEN /\ requests' = Append(requests,
                       ViewRequest("expense_delete", user, method, project_id, expense_id, Http404))
                /\ UNCHANGED expenses
           ELSE IF is_post(method)
           THEN /\ expenses' = [expenses EXCEPT ![expense_id] = None]
                /\ requests' = Append(requests,
                       ViewRequest("expense_delete", user, method, project_id, expense_id,
                           ViewResponse("redirect", "success", {})))
           ELSE /\ requests' = Append(requests,
                       ViewRequest("expense_delete", user, method, project_id, expense_id,
                           ViewResponse("redirect", "", {})))
                /\ UNCHANGED expenses
    /\ UNCHANGED <<projects, partners, bookings>>
    /\ OtherViews

\* get_object_or_404(SaleBooking, id = booking_id, sales_person = request.user)
get_booking(user, booking_id) ==
    IF booking_id \in DOMAIN bookings /\ ~IsNone(bookings[booking_id])
          /\ Val(bookings[booking_id]).sales_person = user
    THEN bookings[booking_id]
    ELSE None

\* booking_delete: a POST deletes the booking, any other method shows the
\* confirmation page
booking_delete(user, method, booking_id) ==
    /\ Len(requests) < MaxViewRequests
    /\ LET booking == get_booking(user, booking_id)
       IN  IF IsNone(booking)
           THEN /\ requests' = Append(requests,
                       ViewRequest("booking_delete", user, method, 0, booking_id, Http404))
                /\ UNCHANGED bookings
           ELSE IF is_post(method)
           THEN /\ bookings' = [bookings EXCEPT ![booking_id] = None]
                /\ requests' = Append(requests,
                       ViewRequest("booking_delete", user, method, 0, booking_id,
                           ViewResponse("redirect", "success", {})))
           ELSE /\ requests' = Append(requests,
                       ViewRequest("booking_delete", user, method, 0, booking_id,
                           ViewResponse("render", "", {<<"booking", booking_id>>})))
                /\ UNCHANGED bookings
    /\ UNCHANGED <<projects, expenses, partners>>
    /\ OtherViews

\* what create_project receives: no POST, a project form that does not
\* validate, a valid project form with partner forms that do not validate,
\* or both valid
CreateProjectInputs == {"GET", "POST invalid", "POST invalid partners", "POST valid"}

\* create_project.  Within transaction.atomic() the project is saved and then
\* the partner formset is validated; when it is invalid the view adds an error
\* message and leaves the block without an exception, so the transaction is
\* committed with the project in it.  With an invalid project form line 39
\* reads partner_formset, which was never assigned.
create_project(user, input) ==
    /\ Len(requests) < MaxViewRequests
    /\ IF input = "GET"
       THEN /\ requests' = Append(requests,
                   ViewRequest("create_project", user, input, 0, 0, ViewResponse("render", "", {})))
            /\ UNCHANGED <<projects, partners>>
       ELSE IF input = "POST invalid"
       THEN /\ requests' = Append(requests,
                   ViewRequest("create_project", user, input, 0, 0, ViewResponse("500", "", {})))
            /\ UNCHANGED <<projects, partners>>
       ELSE LET project_id == Len(projects) + 1
                project == [created_by |-> user, estimated_budget |-> NewBudget, actual_cost |-> 0]
            IN  /\ projects' = Append(projects, Some(project))
                /\ IF input = "POST valid"
                   THEN /\ partners' = Append(partners, [project |-> project_id])
                        /\ requests' = Append(requests,
                               ViewRequest("create_project", user, input, project_id, 0,
                                   ViewResponse("redirect", "success", {})))
                   ELSE /\ UNCHANGED partners
                        /\ requests' = Append(requests,
                               ViewRequest("create_project", user, input, project_id, 0,
                                   ViewResponse("render", "error", {})))
    /\ UNCHANGED <<expenses, bookings>>
    /\ OtherViews

\* the steps of the report views within the views specification
ReportViews ==
    /\ Len(requests) < MaxViewRequests
    /\ \/ \E user \in Users, input \in CreateInputs : create_report_request(user, input)
       \/ \E user \in Users, report_id \in ViewIds : download_report(user, report_id)
       \/ \E user \in Users, report_id \in ViewIds : delete_report(user, report_id)

NextViews ==
    \/ \E user \in Users, id \in ViewIds : project_detail_view(user, id)
    \/ \E user \in Users, input \in FormInputs, id \in ViewIds : edit_project(user, input, id)
    \/ \E user \in Users, method \in Methods, id \in ViewIds : delete_project(user, method, id)
    \/ \E user \in Users, input \in FormInputs, id \in ViewIds : expense_create_view(user, input, id)
    \/ \E user \in Users, input \in FormInputs, id \in ViewIds, e \in ViewIds :
           expense_edit(user, input, id, e)
    \/ \E user \in Users, method \in Methods, id \in ViewIds, e \in ViewIds :
           expense_delete(user, method, id, e)
    \/ \E user \in Users, method \in Methods, id \in ViewIds : booking_delete(user, method, id)
    \/ \E user \in Users, input \in CreateProjectInputs : create_project(user, input)
    \/ ReportViews
    \/ \E q \in DOMAIN requests : requests[q].pc = "created" /\ mark_processing(q)
    \/ \E q \in DOMAIN requests : requests[q].pc = "processing" /\ finish_report_request(q)

SpecViews == InitViews /\ [][NextViews]_vars

-----------------------------------------------------------------------------
(* The middleware specification: FlexibleCommonMiddleware.process_request  *)
(* for the requests that reach one server process                          *)

MaxHostRequests == 2

\* a host name is the sequence of its labels ("app.example.com" is
\* <<"app", "example", "com">>); a pattern of ALLOWED_HOSTS is split in the
\* same way, so that ".example.com" is <<"", "example", "com">>
Domains == {<<"localhost">>, <<"127", "0", "0", "1">>, <<"example", "com">>,
            <<"app", "example", "com">>, <<"other", "test">>}
Ports == {"", "8000"}

\* the Host header of a request
HostHeaders == [domain : Domains, port : Ports]

\* the ALLOWED_HOSTS of the settings file
ConfiguredHosts == {<<>>, << <<"*">> >>, << <<"", "example", "com">> >>, << <<"localhost">> >>}

IsSuffix(s, t) ==
    /\ Len(s) <= Len(t)
    /\ \A i \in 1..Len(s) : s[i] = t[Len(t) - Len(s) + i]

\* django.utils.http.is_same_domain
is_same_domain(host, pattern) ==
    \/ pattern # <<>> /\ pattern[1] = "" /\ IsSuffix(Tail(pattern), host)
    \/ pattern = host

\* django.http.request.validate_host
validate_host(host, allowed_hosts) ==
    \E i \in DOMAIN allowed_hosts :
        allowed_hosts[i] = <<"*">> \/ is_same_domain(host, allowed_hosts[i])

\* request.get_host(): the header when its domain is allowed, and
\* DisallowedHost (None) when it is not; with DEBUG and an empty
\* ALLOWED_HOSTS the variants of localhost are allowed
get_host(header, conf) ==
    LET allowed_hosts ==
            IF conf.DEBUG /\ conf.ALLOWED_HOSTS = <<>>
            THEN << <<"", "localhost">>, <<"127", "0", "0", "1">>, <<"[::1]">> >>
            ELSE conf.ALLOWED_HOSTS
    IN  IF validate_host(header.domain, allowed_hosts) THEN Some(header) ELSE None

\* host not in settings.ALLOWED_HOSTS
Listed(host, allowed_hosts) == \E i \in DOMAIN allowed_hosts : allowed_hosts[i] = host

\* the settings after lines 15-19
flexible_hosts(header, conf) ==
    LET host == header.domain
    IN  IF conf.DEBUG /\ ~Listed(host, conf.ALLOWED_HOSTS)
        THEN [conf EXCEPT !.ALLOWED_HOSTS = Append(@, host)]
        ELSE conf

InitMiddleware ==
    /\ \E debug \in BOOLEAN, hosts \in ConfiguredHosts :
           settings = [DEBUG |-> debug, ALLOWED_HOSTS |-> hosts]
    /\ requests = <<>>
    /\ now = 0
    /\ projects = <<>>
    /\ detail = <<>>
    /\ defaults = <<>>
    /\ snapshots = <<>>
    /\ runs = <<>>
    /\ reports = <<>>
    /\ storage = <<>>
    /\ expenses = <<>>
    /\ partners = <<>>
    /\ bookings = <<>>
    /\ buildings = <<>>
    /\ payments = <<>>
    /\ users = <<>>
    /\ sessions = <<>>
    /\ charts = <<>>

\* process_request for one request.  In DEBUG mode line 17 reads
\* request.get_host(), which raises DisallowedHost for a host that is not
\* allowed; otherwise the host is appended to ALLOWED_HOSTS unless it is
\* listed, and CommonMiddleware.process_request reads get_host() again.
\* Nothing takes the host out of the list afterwards.
process_request(header) ==
    /\ Len(requests) < MaxHostRequests
    /\ IF settings.DEBUG /\ IsNone(get_host(header, settings))
       THEN /\ requests' = Append(requests, [view |-> "process_request", header |-> header,
                                             response |-> "400"])
            /\ UNCHANGED settings
       ELSE LET after == flexible_hosts(header, settings)
            IN  /\ settings' = after
                /\ requests' = Append(requests,
                       [view |-> "process_request", header |-> header,
                        response |-> IF IsNone(get_host(header, after)) THEN "400" ELSE "200"])
    /\ UNCHANGED <<now, projects, detail, defaults, snapshots, runs, reports, storage,
                   expenses, partners, bookings, buildings, payments, users, sessions, charts>>

NextMiddleware == \E header \in HostHeaders : process_request(header)

SpecMiddleware == InitMiddleware /\ [][NextMiddleware]_vars

-----------------------------------------------------------------------------
(* The buildings specification: the get_buildings endpoint over the       *)
(* projects and buildings of two users                                     *)

MaxApiRequests == 2

\* the owner of each project id, None for an id without a row
ProjectTables == [1..2 -> {Some([created_by |-> u]) : u \in Users} \cup {None}]

\* the project of each building
BuildingTables == [1..2 -> [project : 1..2]]

\* request.GET.get('project'): the parameter is missing, empty, the digits
\* of an id, or not a number
ProjectParams == {None, Some(""), Some("1"), Some("2"), Some("3"), Some("abc")}

\* the id a value of the id field stands for; None when it is not a number
\* (the lookup raises ValueError)
to_python(value) ==
    CASE value = "1" -> Some(1)
      [] value = "2" -> Some(2)
      [] value = "3" -> Some(3)
      [] OTHER -> None

\* Project.objects.get(id = id, created_by = request.user); None for
\* Project.DoesNotExist
owned_project(user, id) ==
    IF id \in DOMAIN projects /\ ~IsNone(projects[id]) /\ Val(projects[id]).created_by = user
    THEN Some(id)
    ELSE None

\* Building.objects.filter(project = project).values('id', 'name')
buildings_of(project_id) == {b \in DOMAIN buildings : buildings[b].project = project_id}

JsonResponse(ids) == [status |-> 200, buildings |-> ids]

\* the response to an exception that the view does not catch
ServerError == [status |-> 500, buildings |-> {}]

\* what get_buildings answers to a user who sends a project parameter
buildings_response(user, param) ==
    IF IsNone(param) \/ Val(param) = ""
    THEN JsonResponse({})
    ELSE LET id == to_python(Val(param))
         IN  IF IsNone(id)
             THEN ServerError
             ELSE LET project == owned_project(user, Val(id))
                  IN  IF IsNone(project)
                      THEN JsonResponse({})
                      ELSE JsonResponse(buildings_of(Val(project)))

InitBuildings ==
    /\ projects \in ProjectTables
    /\ buildings \in BuildingTables
    /\ payments = <<>>
    /\ requests = <<>>
    /\ now = 0
    /\ detail = <<>>
    /\ defaults = <<>>
    /\ snapshots = <<>>
    /\ runs = <<>>
    /\ reports = <<>>
    /\ storage = <<>>
    /\ expenses = <<>>
    /\ partners = <<>>
    /\ bookings = <<>>
    /\ users = <<>>
    /\ sessions = <<>>
    /\ settings = <<>>
    /\ charts = <<>>

\* get_buildings: the request changes nothing; the log keeps its answer
get_buildings(user, param) ==
    /\ Len(requests) < MaxApiRequests
    /\ requests' = Append(requests, [view |-> "get_buildings", user |-> user, project |-> param,
                                     response |-> buildings_response(user, param)])
    /\ UNCHANGED <<now, projects, detail, defaults, snapshots, runs, reports, storage,
                   expenses, partners, bookings, buildings, payments, users, sessions, settings, charts>>

NextBuildings == \E user \in Users, param \in ProjectParams : get_buildings(user, param)

SpecBuildings == InitBuildings /\ [][NextBuildings]_vars

-----------------------------------------------------------------------------
(* The settings specification: settings_view for the sessions of two      *)
(* users, each request handled in one step                                 *)

MaxSettingsRequests == 2

SessionIds == 1..3

\* the text of the email field as it is typed
EmailInputs == {"", " new@example.com ", "bob@example.com", "not-an-email"}

\* str.strip() on the inputs
strip(text) == IF text = " new@example.com " THEN "new@example.com" ELSE text

\* validate_email: TRUE when no ValidationError is raised
validate_email(email) == email \in {"new@example.com", "alice@example.com", "bob@example.com"}

\* the POST data of the settings page
AccountForms ==
    [form_type : {"account"}, theme : {"light"}, email : EmailInputs,
     current_password : {"", "oldsecret", "12345678"},
     new_password : {"", "1234567", "12345678"},
     confirm_password : {"1234567", "12345678"}]

AppearanceForms ==
    [form_type : {"appearance"}, theme : {"light", "dark"}, email : {""},
     current_password : {"oldsecret"}, new_password : {"12345678"},
     confirm_password : {"12345678"}]

\* a request to the settings page: a GET (None) or a POST with its form
SettingsInputs == {None} \cup {Some(f) : f \in AccountForms \cup AppearanceForms}

\* the stored password: what make_password keeps of the raw password, with
\* the salt of the call that made it
make_password(raw, salt) == [raw |-> raw, salt |-> salt]

\* mutant of check_password: every password is accepted
check_password_any(user, raw) == TRUE

\* user.check_password(raw)
check_password(user, raw) == user.password.raw = raw

\* user.set_password(raw) on the loaded row
set_password(user, raw, salt) == [user EXCEPT !.password = make_password(raw, salt)]

\* the session belongs to a logged-in user: the hash it carries is the one of
\* the user's stored password (login_required and the session verification of
\* the authentication middleware)
Authenticated(s) == sessions[s].hash = users[sessions[s].user].password

\* User.objects.filter(email = new_email).exclude(pk = user.pk).exists()
email_taken(new_email, name) == \E v \in DOMAIN users : v # name /\ users[v].email = new_email

\* lines 244-258: the email is taken over when it is given, differs from the
\* user's, is valid and is no other user's
email_accepted(user, name, form) ==
    LET new_email == strip(form.email)
    IN  /\ new_email # ""
        /\ new_email # user.email
        /\ validate_email(new_email)
        /\ ~email_taken(new_email, name)

\* lines 265-279: the chain of tests before set_password
password_accepted(user, form) ==
    /\ form.new_password # ""
    /\ form.current_password # ""
    /\ check_password(user, form.current_password)
    /\ form.new_password = form.confirm_password
    /\ Len(form.new_password) >= 8

\* the user object at the end of the account branch, computed from the row
\* the request loaded
account_form(user, name, form, salt) ==
    LET with_email == IF email_accepted(user, name, form)
                      THEN [user EXCEPT !.email = strip(form.email)]
                      ELSE user
    IN  IF password_accepted(user, form)
        THEN set_password(with_email, form.new_password, salt)
        ELSE with_email

\* the messages of the account branch
account_messages(user, name, form) ==
    {m \in {"email updated", "password changed"} :
        \/ m = "email updated" /\ email_accepted(user, name, form)
        \/ m = "password changed" /\ password_accepted(user, form)}

SettingsRequest(s, input, pc, user, response) ==
    [view |-> "settings_view", session |-> s, name |-> sessions[s].user, input |-> input,
     pc |-> pc, user |-> user, response |-> response]

InitSettings ==
    /\ users = [name \in Users |->
                   [email |-> IF name = "alice" THEN "alice@example.com" ELSE "bob@example.com",
                    password |-> make_password("oldsecret", 0)]]
    /\ sessions = [s \in SessionIds |->
                      [user |-> IF s = 3 THEN "bob" ELSE "alice",
                       hash |-> make_password("oldsecret", 0),
                       ui_theme |-> "light"]]
    /\ requests = <<>>
    /\ now = 0
    /\ projects = <<>>
    /\ detail = <<>>
    /\ defaults = <<>>
    /\ snapshots = <<>>
    /\ runs = <<>>
    /\ reports = <<>>
    /\ storage = <<>>
    /\ expenses = <<>>
    /\ partners = <<>>
    /\ bookings = <<>>
    /\ buildings = <<>>
    /\ payments = <<>>
    /\ settings = <<>>
    /\ charts = <<>>

OtherSettings ==
    UNCHANGED <<now, projects, detail, defaults, snapshots, runs, reports, storage,
                expenses, partners, bookings, buildings, payments, settings, charts>>

\* settings_view for one request of a session.  A session that is not
\* authenticated is sent to the login page.  The appearance form writes the
\* session; the account form saves the user when the email or the password
\* was accepted, and after set_password the session takes the new hash
\* (update_session_auth_hash).
settings_view(s, input) ==
    /\ Len(requests) < MaxSettingsRequests
    /\ LET name == sessions[s].user
           user == users[name]
       IN  IF ~Authenticated(s)
           THEN /\ requests' = Append(requests,
                       SettingsRequest(s, input, "returned", user, [kind |-> "login", messages |-> {}]))
                /\ UNCHANGED <<users, sessions>>
           ELSE IF IsNone(input)
           THEN /\ requests' = Append(requests,
                       SettingsRequest(s, input, "returned", user, [kind |-> "render", messages |-> {}]))
                /\ UNCHANGED <<users, sessions>>
           ELSE IF Val(input).form_type = "appearance"
           THEN /\ sessions' = [sessions EXCEPT ![s].ui_theme = Val(input).theme]
                /\ requests' = Append(requests,
                       SettingsRequest(s, input, "returned", user,
                           [kind |-> "redirect", messages |-> {"appearance saved"}]))
                /\ UNCHANGED users
           ELSE LET form == Val(input)
                    after == account_form(user, name, form, Len(requests) + 1)
                IN  /\ users' = [users EXCEPT ![name] = after]
                    /\ sessions' = IF password_accepted(user, form)
                                   THEN [sessions EXCEPT ![s].hash = after.password]
                                   ELSE sessions
                    /\ requests' = Append(requests,
                           SettingsRequest(s, input, "returned", after,
                               [kind |-> "redirect", messages |-> account_messages(user, name, form)]))
    /\ OtherSettings

NextSettings == \E s \in SessionIds, input \in SettingsInputs : settings_view(s, input)

SpecSettings == InitSettings /\ [][NextSettings]_vars

-----------------------------------------------------------------------------
(* The overlapping settings specification: the account form of            *)
(* settings_view in two steps, the tests against the database and the     *)
(* save, so that the requests of different sessions interleave            *)

\* lines 227-280 of settings_view: the user is loaded, the email is looked up
\* among the other users and the password is tested; the request then holds
\* the user object to save.  A request with nothing to save returns at once.
settings_check(s, input) ==
    /\ Len(requests) < MaxSettingsRequests
    /\ LET name == sessions[s].user
           user == users[name]
       IN  IF ~Authenticated(s)
           THEN /\ requests' = Append(requests,
                       SettingsRequest(s, input, "returned", user, [kind |-> "login", messages |-> {}]))
                /\ UNCHANGED sessions
           ELSE IF IsNone(input)
           THEN /\ requests' = Append(requests,
                       SettingsRequest(s, input, "returned", user, [kind |-> "render", messages |-> {}]))
                /\ UNCHANGED sessions
           ELSE IF Val(input).form_type = "appearance"
           THEN /\ sessions' = [sessions EXCEPT ![s].ui_theme = Val(input).theme]
                /\ requests' = Append(requests,
                       SettingsRequest(s, input, "returned", user,
                           [kind |-> "redirect", messages |-> {"appearance saved"}]))
           ELSE LET form == Val(input)
                    after == account_form(user, name, form, Len(requests) + 1)
                    pc == IF account_messages(user, name, form) = {} THEN "returned" ELSE "checked"
                IN  /\ requests' = Append(requests,
                           SettingsRequest(s, input, pc, after,
                               [kind |-> "redirect", messages |-> account_messages(user, name, form)]))
                    /\ UNCHANGED sessions
    /\ UNCHANGED users
    /\ OtherSettings

\* user.save() of line 277 or line 283: the row is written with every field
\* of the user object of the request; after set_password the session takes
\* the new hash
settings_save(q) ==
    /\ requests[q].pc = "checked"
    /\ users' = [users EXCEPT ![requests[q].name] = requests[q].user]
    /\ sessions' = IF "password changed" \in requests[q].response.messages
                   THEN [sessions EXCEPT ![requests[q].session].hash = requests[q].user.password]
                   ELSE sessions
    /\ requests' = [requests EXCEPT ![q].pc = "returned"]
    /\ OtherSettings

NextSettingsOverlap ==
    \/ \E s \in SessionIds, input \in SettingsInputs : settings_check(s, input)
    \/ \E q \in DOMAIN requests : settings_save(q)

SpecSettingsOverlap == InitSettings /\ [][NextSettingsOverlap]_vars

-----------------------------------------------------------------------------
(* The charts specification: the six-entry monthly series of the four     *)
(* dashboards, computed for a current date                                 *)

\* days are counted from 1 January of EpochYear; the current date lies
\* between day MinChartDay (1 January 2023) and day MaxChartDay (31 December
\* 2024), a year of 365 days and a leap year
EpochYear == 2022
MinChartDay == 365
MaxChartDay == 1095

IsLeap(y) == (y % 4 = 0 /\ y % 100 # 0) \/ y % 400 = 0

DaysInMonth(y, m) ==
    IF m = 2 THEN (IF IsLeap(y) THEN 29 ELSE 28)
    ELSE IF m \in {4, 6, 9, 11} THEN 30
    ELSE 31

\* the date n days after the first day of month m of year y
RECURSIVE date_from(_, _, _)
date_from(y, m, n) ==
    IF n < DaysInMonth(y, m)
    THEN [year |-> y, month |-> m, day |-> n + 1]
    ELSE IF m = 12 THEN date_from(y + 1, 1, n - DaysInMonth(y, m))
    ELSE date_from(y, m + 1, n - DaysInMonth(y, m))

\* the calendar date of a day number
date_of(n) == date_from(EpochYear, 1, n)

\* datetime - timedelta(days = days)
minus_days(n, days) == n - days

\* datetime.replace(day = 1)
replace_day_1(n) == n - (date_of(n).day - 1)

\* strftime('%b %Y'): the month and the year of a day
month_name(n) == [year |-> date_of(n).year, month |-> date_of(n).month]

\* list.reverse()
reverse(s) == [k \in 1..Len(s) |-> s[Len(s) + 1 - k]]

\* dashboard.home, lines 42-64: month_start is the first of the current month
\* less 30 days for each step back
home_months(n) ==
    reverse([k \in 1..6 |-> month_name(minus_days(replace_day_1(n), 30 * (k - 1)))])

\* Project.objects.filter(created_by = request.user)
user_projects(user) ==
    {p \in DOMAIN projects : ~IsNone(projects[p]) /\ Val(projects[p]).created_by = user}

\* date__range = [month_start, month_end]: BETWEEN, both ends included
in_range(date, month_start, month_end) == month_start <= date /\ date <= month_end

\* ProjectExpense.objects.filter(project__in = user_projects, date__range = ...)
expenses_in(ps, month_start, month_end) ==
    {e \in DOMAIN expenses :
        /\ ~IsNone(expenses[e])
        /\ Val(expenses[e]).project \in ps
        /\ in_range(Val(expenses[e]).date, month_start, month_end)}

\* ProjectPayment.objects.filter(project__in = user_projects,
\*     payment_date__range = ..., status = 'completed')
payments_in(ps, month_start, month_end) ==
    {i \in DOMAIN payments :
        /\ ~IsNone(payments[i])
        /\ Val(payments[i]).project \in ps
        /\ in_range(Val(payments[i]).payment_date, month_start, month_end)
        /\ Val(payments[i]).status = "completed"}

\* aggregate(Sum('amount'))['amount__sum'] or 0 over payments
RECURSIVE SumPayments(_)
SumPayments(ids) ==
    IF ids = {} THEN 0
    ELSE LET i == CHOOSE x \in ids : TRUE
         IN  Val(payments[i]).amount + SumPayments(ids \ {i})

\* lines 43-61 of home: the entry of the month i steps back
cash_flow_entry(user, n, i) ==
    LET month_start == minus_days(replace_day_1(n), 30 * i)
        month_end == month_start + 30
        income == SumPayments(payments_in(user_projects(user), month_start, month_end))
        spent == SumAmounts(expenses_in(user_projects(user), month_start, month_end))
    IN  [month |-> month_name(month_start), window |-> <<month_start, month_end>>,
         income |-> income, expenses |-> spent, net |-> income - spent]

\* lines 41-64 of home: cash_flow_data, oldest month first
cash_flow_data(user, n) == reverse([k \in 1..6 |-> cash_flow_entry(user, n, k - 1)])

\* the accounts, sales and material dashboards: month_date is today less 30
\* days for each step back
dashboard_months(n) ==
    reverse([k \in 1..6 |-> month_name(minus_days(n, 30 * (k - 1)))])

ChartViews == {"home", "accounts", "sales", "material_management"}

InitCharts ==
    /\ now \in MinChartDay..MaxChartDay
    /\ charts = [v \in ChartViews |-> None]
    /\ requests = <<>>
    /\ projects = <<>>
    /\ detail = <<>>
    /\ defaults = <<>>
    /\ snapshots = <<>>
    /\ runs = <<>>
    /\ reports = <<>>
    /\ storage = <<>>
    /\ expenses = <<>>
    /\ partners = <<>>
    /\ bookings = <<>>
    /\ buildings = <<>>
    /\ payments = <<>>
    /\ users = <<>>
    /\ sessions = <<>>
    /\ settings = <<>>

OtherCharts ==
    UNCHANGED <<now, requests, projects, detail, defaults, snapshots, runs, reports, storage,
                expenses, partners, bookings, buildings, payments, users, sessions, settings>>

\* dashboard.home for a user: cash_flow_data of the context
home(user) ==
    /\ charts' = [charts EXCEPT !["home"] =
                      Some([user |-> user, cash_flow_data |-> cash_flow_data(user, now)])]
    /\ OtherCharts

\* accounts.dashboard: the months of cash_flow_data
accounts_dashboard ==
    /\ charts' = [charts EXCEPT !["accounts"] = Some(dashboard_months(now))]
    /\ OtherCharts

\* sales.dashboard: the months of sales_performance_data
sales_dashboard ==
    /\ charts' = [charts EXCEPT !["sales"] = Some(dashboard_months(now))]
    /\ OtherCharts

\* material_management.dashboard: the months of inventory_analysis_data
material_dashboard ==
    /\ charts' = [charts EXCEPT !["material_management"] = Some(dashboard_months(now))]
    /\ OtherCharts

NextCharts ==
    \/ \E user \in Users : home(user)
    \/ accounts_dashboard
    \/ sales_dashboard
    \/ material_dashboard

SpecCharts == InitCharts /\ [][NextCharts]_vars

-----------------------------------------------------------------------------
(* The overlapping detail specification: project_detail in two steps, the *)
(* load of the project and the save of its actual_cost, so that requests  *)
(* to edit_project and expense_create fall between them                   *)

\* line 61 of project_detail: the project is loaded for the user; the request
\* then holds the project object
project_detail_load(user, project_id) ==
    /\ Len(requests) < MaxViewRequests
    /\ LET project == get_project(user, project_id)
       IN  IF IsNone(project)
           THEN requests' = Append(requests,
                    ViewRequest("project_detail", user, "GET", project_id, 0, Http404))
           ELSE requests' = Append(requests,
                    [view |-> "project_detail", user |-> user, pc |-> "loaded", input |-> "GET",
                     project_id |-> project_id, record_id |-> 0,
                     response |-> ViewResponse("", "", {}), project |-> Val(project)])
    /\ UNCHANGED <<projects, expenses, partners, bookings>>
    /\ OtherViews

\* lines 72-78 of project_detail: the expenses are summed, the sum is put into
\* the project object of the request, and project.save() writes every field
\* of that object to the row
project_detail_save(q) ==
    /\ requests[q].pc = "loaded"
    /\ LET project_id == requests[q].project_id
           total == SumAmounts(expenses_of(project_id))
           project == [requests[q].project EXCEPT !.actual_cost = total]
       IN  /\ projects' = [projects EXCEPT ![project_id] = Some(project)]
           /\ requests' = [requests EXCEPT ![q] =
                  ViewRequest("project_detail", requests[q].user, "GET", project_id, 0,
                      ViewResponse("render", "",
                          {<<"project", project_id>>}
                          \cup {<<"expense", e>> : e \in expenses_of(project_id)}))]
    /\ UNCHANGED <<expenses, partners, bookings>>
    /\ OtherViews

NextDetailOverlap ==
    \/ \E user \in Users, id \in ViewIds : project_detail_load(user, id)
    \/ \E q \in DOMAIN requests : project_detail_save(q)
    \/ \E user \in Users, input \in FormInputs, id \in ViewIds : edit_project(user, input, id)
    \/ \E user \in Users, input \in FormInputs, id \in ViewIds : expense_create_view(user, input, id)

SpecDetailOverlap == InitViews /\ [][NextDetailOverlap]_vars

-----------------------------------------------------------------------------
(* The cash-flow specification: the main dashboard over an expense and a  *)
(* payment of the user, dated up to MaxAge days before today              *)

\* today lies between day MinCashDay (1 January 2023) and day MaxCashDay
\* (31 March 2023)
MinCashDay == 365
MaxCashDay == 454
MaxAge == 60

\* the amounts of the rows
CashAmounts == {1, 301}

PaymentStatuses == {"completed", "pending"}

InitCashFlow ==
    /\ now \in MinCashDay..MaxCashDay
    /\ projects = <<Some([created_by |-> "alice", estimated_budget |-> 300, actual_cost |-> 0]),
                    Some([created_by |-> "bob", estimated_budget |-> 300, actual_cost |-> 0])>>
    /\ \E age \in 0..MaxAge, amount \in CashAmounts, status \in PaymentStatuses :
          /\ expenses = <<Some([project |-> 1, amount |-> amount, date |-> now - age]),
                          Some([project |-> 2, amount |-> amount, date |-> now])>>
          /\ payments = <<Some([project |-> 1, amount |-> amount, payment_date |-> now - age,
                                status |-> status])>>
    /\ charts = [v \in ChartViews |-> None]
    /\ requests = <<>>
    /\ detail = <<>>
    /\ defaults = <<>>
    /\ snapshots = <<>>
    /\ runs = <<>>
    /\ reports = <<>>
    /\ storage = <<>>
    /\ partners = <<>>
    /\ bookings = <<>>
    /\ buildings = <<>>
    /\ users = <<>>
    /\ sessions = <<>>
    /\ settings = <<>>

NextCashFlow == \E user \in Users : home(user)

SpecCashFlow == InitCashFlow /\ [][NextCashFlow]_vars

-----------------------------------------------------------------------------
(* Claims about the snapshot command (checked under Spec) *)

RunKey(run) == <<Head(run.todo), run.today>>

\* the defaults a run is about to write
Pending(run) ==
    IF run.pc = "get" THEN CommandEVM(projects[Head(run.todo)], run.today)
    ELSE Val(run.defaults)

OneRowPerKey == \A key \in SnapKeys : Len(snapshots[key]) <= 1

\* a run that finishes a project whose key already has a row leaves one row
\* there, carrying the run's progress_percent, spi and cpi, and counts it as updated
OverwriteStep ==
    \A r \in RunIds :
        (/\ runs[r].pc \in {"get", "create"}
         /\ runs'[r].todo # runs[r].todo
         /\ snapshots[RunKey(runs[r])] # <<>>)
        => /\ Len(snapshots'[RunKey(runs[r])]) = Len(snapshots[RunKey(runs[r])])
           /\ snapshots'[RunKey(runs[r])][1] = Pending(runs[r])
           /\ runs'[r].updated = runs[r].updated + 1
           /\ runs'[r].created = runs[r].created

\* C1: whatever the runs of the command and their interleaving, there is at
\* most one snapshot per (project, snapshot_date); a run on a day that already
\* has a snapshot for a project overwrites its progress_percent, spi and cpi
\* and adds no row.
C1_OneSnapshotPerDay == []OneRowPerKey /\ [][OverwriteStep]_vars

\* one run created a project's snapshot and another run of the same day,
\* after the activity's completion changed, overwrote it with new values
C1_Witness ==
    \E r1 \in RunIds, r2 \in RunIds :
        /\ r1 # r2
        /\ runs[r1].pc = "done" /\ runs[r2].pc = "done"
        /\ runs[r1].today = runs[r2].today
        /\ runs[r1].created >= 1
        /\ runs[r2].updated >= 1
        /\ \E p \in DOMAIN projects :
               /\ snapshots[<<p, runs[r1].today>>] # <<>>
               /\ snapshots[<<p, runs[r1].today>>][1].progress_percent = 10000

\* C2: every run finishes having created or updated exactly one snapshot
\* dated today for every project, so created + updated is the number of
\* projects, and a second run on the same day reports created = 0.
C2_EveryRunCoversEveryProject ==
    \A r \in RunIds :
        /\ runs[r].pc # "crashed"
        /\ runs[r].pc = "done" =>
            /\ runs[r].created + runs[r].updated = Len(projects)
            /\ \A p \in DOMAIN projects : Len(snapshots[<<p, runs[r].today>>]) = 1
            /\ \A q \in runs[r].after :
                   runs[q].today = runs[r].today => runs[r].created = 0

\* C2 without the crashes: what the runs that reach line 57 have done
RunsThatFinish ==
    \A r \in RunIds :
        runs[r].pc = "done" =>
            /\ runs[r].created + runs[r].updated = Len(projects)
            /\ \A p \in DOMAIN projects : Len(snapshots[<<p, runs[r].today>>]) = 1
            /\ \A q \in runs[r].after :
                   runs[q].today = runs[r].today => runs[r].created = 0

-----------------------------------------------------------------------------
(* Claims about the EVM arithmetic (checked under SpecEVM) *)

\* what each call site last computed: the project as it read it, the progress
\* in hundredths, the rounding step of the progress (1 or 10 hundredths)
CallSites ==
    {[project |-> Val(defaults[id]).project, site |-> "command", step |-> 1,
      progress |-> Val(defaults[id]).values.progress_percent,
      spi |-> Val(defaults[id]).values.spi, cpi |-> Val(defaults[id]).values.cpi] :
        id \in {i \in DOMAIN defaults : ~IsNone(defaults[i])}}
    \cup
    {[project |-> Val(detail[id]).project, site |-> "detail", step |-> 10,
      progress |-> Val(detail[id]).context.overall_progress,
      spi |-> Val(detail[id]).context.spi, cpi |-> Val(detail[id]).context.cpi] :
        id \in {i \in DOMAIN detail : ~IsNone(detail[i])}}

Acts(c) == c.project.activities
ActSet(c) == {Acts(c)[i] : i \in 1..Len(Acts(c))}
PT(c) == planned_total(Acts(c))
Earned(c) == earned(Acts(c), PT(c))
Planned(c) == planned(Acts(c), PT(c), now)

RECURSIVE WeightSum(_, _)
WeightSum(acts, pt) ==
    IF acts = <<>> THEN RZero ELSE RAdd(weight(Head(acts), pt), WeightSum(Tail(acts), pt))

\* C3: for a project with activities the weights are non-negative and sum to
\* 1, so the progress lies between 0 and 100 (completion percentages are
\* within 0..100), durations of 0 or less included.
C3_WeightedAverage ==
    \A c \in CallSites :
        Acts(c) # <<>> =>
            /\ PT(c) > 0 =>
                /\ \A a \in ActSet(c) : RLe(RZero, weight(a, PT(c)))
                /\ WeightSum(Acts(c), PT(c)) = ROne
            /\ c.progress >= 0
            /\ c.progress <= 10000

\* the activities whose planned-completion share a call site computed
Shared(c) == IF PT(c) > 0 THEN {a \in ActSet(c) : HasDates(a)} ELSE {}

ShareInRange(a) ==
    /\ RLe(RZero, planned_completion(a, now))
    /\ RLe(planned_completion(a, now), ROne)

ShareMonotone(a) ==
    \A t1 \in Days, t2 \in Days :
        t1 <= t2 => RLe(planned_completion(a, t1), planned_completion(a, t2))

ShareBetween(a) ==
    (Val(a.planned_start) < now /\ now < Val(a.planned_end)) =>
        planned_completion(a, now)
            = Rat(now - Val(a.planned_start), Val(a.planned_end) - Val(a.planned_start))

\* C4 as stated: the share is 0 when today is on or before planned_start, 1
\* when today is on or after planned_end, elapsed over planned days in
\* between, within [0, 1] and never decreasing as today advances.
C4_ShareAsStated ==
    \A c \in CallSites : \A a \in Shared(c) :
        /\ now <= Val(a.planned_start) => planned_completion(a, now) = RZero
        /\ now >= Val(a.planned_end) => planned_completion(a, now) = ROne
        /\ ShareBetween(a)
        /\ ShareInRange(a)
        /\ ShareMonotone(a)

\* C4 amended: the share is 1 when today is on or after planned_end, 0 when
\* today is before planned_end and on or before planned_start, elapsed over
\* planned days in between, within [0, 1] and never decreasing.
C4_Share ==
    \A c \in CallSites : \A a \in Shared(c) :
        /\ now >= Val(a.planned_end) => planned_completion(a, now) = ROne
        /\ (now < Val(a.planned_end) /\ now <= Val(a.planned_start)) =>
               planned_completion(a, now) = RZero
        /\ ShareBetween(a)
        /\ ShareInRange(a)
        /\ ShareMonotone(a)

\* an activity whose planned_end is not after its planned_start, seen on a day
\* between the two: its share is 1
C4_Witness ==
    \E c \in CallSites : \E a \in Shared(c) :
        /\ Val(a.planned_end) <= now
        /\ now <= Val(a.planned_start)
        /\ planned_completion(a, now) = ROne

\* C5 as stated: a reported SPI is at least 1 exactly when earned >= planned
\* and below 1 exactly when earned < planned; it is 1 when both are 0.
C5_SpiAsStated ==
    \A c \in CallSites :
        ~IsNone(c.spi) =>
            /\ (Val(c.spi) >= 100) <=> RLe(Planned(c), Earned(c))
            /\ (Val(c.spi) < 100) <=> RLt(Earned(c), Planned(c))
            /\ (Earned(c) = RZero /\ Planned(c) = RZero) => Val(c.spi) = 100

\* C5 amended: a reported SPI is at least 1 whenever earned >= planned and at
\* most 1 whenever earned < planned (so it is below 1 only when earned <
\* planned, and above 1 only when earned > planned); it is 1 when both are 0.
C5_Spi ==
    \A c \in CallSites :
        ~IsNone(c.spi) =>
            /\ RLe(Planned(c), Earned(c)) => Val(c.spi) >= 100
            /\ RLt(Earned(c), Planned(c)) => Val(c.spi) <= 100
            /\ (Earned(c) = RZero /\ Planned(c) = RZero) => Val(c.spi) = 100

\* earned is below planned and the SPI reported is 1.00
C5_Witness ==
    \E c \in CallSites :
        /\ ~IsNone(c.spi)
        /\ RLt(Earned(c), Planned(c))
        /\ Val(c.spi) = 100

\* the CPI is the quotient estimated_budget / actual_cost to the nearest hundredth
CpiIsRoundedQuotient(c) ==
    2 * Abs(Val(c.cpi) * c.project.actual_cost - 100 * c.project.estimated_budget)
        <= c.project.actual_cost

CpiReportedIffPositive(c) ==
    ~IsNone(c.cpi) <=> (c.project.actual_cost > 0 /\ c.project.estimated_budget > 0)

\* C6 as stated: CPI is reported exactly when actual_cost and estimated_budget
\* are both positive; it is then estimated_budget / actual_cost rounded to 2
\* decimals, and below 1 exactly when actual_cost exceeds estimated_budget.
C6_CpiAsStated ==
    \A c \in CallSites :
        /\ CpiReportedIffPositive(c)
        /\ ~IsNone(c.cpi) =>
            /\ CpiIsRoundedQuotient(c)
            /\ (Val(c.cpi) < 100) <=> (c.project.actual_cost > c.project.estimated_budget)

\* C6 amended: as stated, except that the CPI is below 1 only when actual_cost
\* exceeds estimated_budget, and at most 1 whenever it does.
C6_Cpi ==
    \A c \in CallSites :
        /\ CpiReportedIffPositive(c)
        /\ ~IsNone(c.cpi) =>
            /\ CpiIsRoundedQuotient(c)
            /\ (Val(c.cpi) < 100) => (c.project.actual_cost > c.project.estimated_budget)
            /\ (c.project.actual_cost > c.project.estimated_budget) => Val(c.cpi) <= 100

\* the project is over budget and the CPI reported is 1.00
C6_Witness ==
    \E c \in CallSites :
        /\ ~IsNone(c.cpi)
        /\ c.project.actual_cost > c.project.estimated_budget
        /\ Val(c.cpi) = 100

\* C7: for the same activities, expenses, budget and date the progress, SPI
\* and CPI of project_detail equal those the command stores.
C7_CallSitesAgree ==
    \A id \in DOMAIN projects :
        (~IsNone(detail[id]) /\ ~IsNone(defaults[id])) =>
            /\ Val(detail[id]).context.overall_progress = Val(defaults[id]).values.progress_percent
            /\ Val(detail[id]).context.spi = Val(defaults[id]).values.spi
            /\ Val(detail[id]).context.cpi = Val(defaults[id]).values.cpi

\* the progress of a project with activities: earned work, or 0 without a
\* positive planned total, whatever the costs are
ScheduleProgress(c) ==
    IF PT(c) > 0
    THEN (IF c.step = 1 THEN Round2(RMul(Earned(c), <<100, 1>>))
          ELSE Round1(RMul(Earned(c), <<100, 1>>)))
    ELSE 0

\* 100 * min(estimated_budget, actual_cost) / estimated_budget, in hundredths, times estimated_budget
CostTimesBudget(c) == 10000 * Min(c.project.estimated_budget, c.project.actual_cost)

\* C8 as stated: without activities the progress is min(100, actual_cost /
\* estimated_budget * 100) for a positive budget and 0 otherwise, never above
\* 100; with any activity the cost-based value is not used.
C8_CostProgressAsStated ==
    \A c \in CallSites :
        /\ Acts(c) = <<>> =>
            /\ c.project.estimated_budget > 0 =>
                   c.progress * c.project.estimated_budget = CostTimesBudget(c)
            /\ c.project.estimated_budget <= 0 => c.progress = 0
            /\ c.progress <= 10000
        /\ Acts(c) # <<>> => c.progress = ScheduleProgress(c)

\* C8 amended: as stated, with the cost-based value rounded to 2 decimals by
\* the command and to 1 decimal by project_detail.
C8_CostProgress ==
    \A c \in CallSites :
        /\ Acts(c) = <<>> =>
            /\ c.project.estimated_budget > 0 =>
                   2 * Abs(c.progress * c.project.estimated_budget - CostTimesBudget(c))
                       <= c.step * c.project.estimated_budget
            /\ c.project.estimated_budget <= 0 => c.progress = 0
            /\ c.progress <= 10000
        /\ Acts(c) # <<>> => c.progress = ScheduleProgress(c)

\* a project without activities whose cost ratio has more decimals than are
\* kept: the progress reported is the rounded value
C8_Witness ==
    \E c \in CallSites :
        /\ Acts(c) = <<>>
        /\ c.project.estimated_budget > 0
        /\ c.progress * c.project.estimated_budget # CostTimesBudget(c)
        /\ c.progress > 0

-----------------------------------------------------------------------------
(* Claims about the report requests (checked under SpecReports) *)

\* the create_report_request requests that created a ReportRequest
Creating(q) == requests[q].view = "create_report_request" /\ requests[q].report_id # 0

IsPrefix(s, t) == Len(s) <= Len(t) /\ \A i \in 1..Len(s) : s[i] = t[i]

\* C9: when create_report_request returns after creating a ReportRequest, the
\* request's status is completed or failed, never pending or processing, and
\* the statuses it took are pending, then processing, then that status; the
\* row it saved last carries that status too.
C9_GeneratedWithinRequest ==
    \A q \in DOMAIN requests :
        Creating(q) =>
            /\ \/ IsPrefix(requests[q].trail, <<"pending", "processing", "completed">>)
               \/ IsPrefix(requests[q].trail, <<"pending", "processing", "failed", "failed">>)
            /\ requests[q].pc = "returned" =>
                /\ Val(requests[q].report_request).status \in {"completed", "failed"}
                /\ Len(requests[q].trail) >= 3
                /\ requests[q].trail[Len(requests[q].trail)]
                       = Val(requests[q].report_request).status
                /\ \/ IsNone(reports[requests[q].report_id])
                   \/ Val(reports[requests[q].report_id]).status \in {"completed", "failed"}

\* one request has returned with a completed report and another with a failed one
C9_Witness ==
    \E q1 \in DOMAIN requests, q2 \in DOMAIN requests :
        /\ Creating(q1) /\ requests[q1].pc = "returned"
        /\ Val(requests[q1].report_request).status = "completed"
        /\ requests[q1].response = Redirect("success")
        /\ Creating(q2) /\ requests[q2].pc = "returned"
        /\ Val(requests[q2].report_request).status = "failed"
        /\ requests[q2].response = Redirect("error")

\* the download_report requests that found the report they name
Downloads == {q \in DOMAIN requests :
                 requests[q].view = "download_report" /\ ~IsNone(requests[q].loaded)}

ContentOnlyWhenReady ==
    \A q \in Downloads :
        requests[q].response.kind = "content" =>
            /\ Val(requests[q].loaded).status = "completed"
            /\ Val(requests[q].loaded).file_path # NoPath

\* a step that is a download_report request for a report that is not completed
RefusedStep ==
    (/\ Len(requests') = Len(requests) + 1
     /\ requests'[Len(requests')].view = "download_report"
     /\ ~IsNone(requests'[Len(requests')].loaded)
     /\ Val(requests'[Len(requests')].loaded).status # "completed")
    => /\ requests'[Len(requests')].response = Redirect("error")
       /\ reports' = reports
       /\ storage' = storage

\* C10: download_report returns file content only for a report that is
\* completed and has a file_path; for a report that is pending, processing or
\* failed it returns a redirect with an error message and changes neither the
\* report rows nor the stored files.
C10_DownloadOnlyWhenReady == []ContentOnlyWhenReady /\ [][RefusedStep]_vars

\* a download was refused, with nothing changed, while the report was being
\* processed, and a later download returned the file of the completed report
C10_Witness ==
    \E q1 \in Downloads, q2 \in Downloads :
        /\ q1 < q2
        /\ requests[q1].report_id = requests[q2].report_id
        /\ Val(requests[q1].loaded).status = "processing"
        /\ requests[q1].response = Redirect("error")
        /\ Val(requests[q2].loaded).status = "completed"
        /\ requests[q2].response.kind = "content"

-----------------------------------------------------------------------------
(* Claims about the export formats (checked under SpecReports) *)

\* the export format a generator, a file extension and a Content-Type denote
FormatOfGenerator(g) ==
    IF g = "generate_pdf_report" THEN "pdf"
    ELSE IF g = "generate_excel_report" THEN "excel"
    ELSE IF g = "generate_csv_report" THEN "csv"
    ELSE "none"

FormatOfExtension(x) ==
    IF x = "pdf" THEN "pdf"
    ELSE IF x = "xlsx" THEN "excel"
    ELSE IF x = "csv" THEN "csv"
    ELSE "none"

FormatOfContentType(t) ==
    IF t = "application/pdf" THEN "pdf"
    ELSE IF t = "application/vnd.openxmlformats-officedocument.spreadsheetml.sheet" THEN "excel"
    ELSE IF t = "text/csv" THEN "csv"
    ELSE "none"

\* the download_report requests that returned a file
Served == {q \in Downloads : requests[q].response.kind = "content"}

\* the extension of a stored file's name
StoredExtension(name) == name[3]

\* C11: for a report of any of the three formats, the generator that wrote
\* the file, the extension of the stored file, the Content-Type of the
\* download and the extension of the download's filename all denote the
\* report's format.
C11_FormatsAgree ==
    \A q \in Served :
        LET report == Val(requests[q].report_request)
        IN  /\ FormatOfGenerator(requests[q].response.content.generator) = report.format
            /\ FormatOfExtension(StoredExtension(report.file_path)) = report.format
            /\ FormatOfContentType(requests[q].response.content_type) = report.format
            /\ FormatOfExtension(requests[q].response.extension) = report.format

\* C11 without the filename of the download: generator, stored extension and
\* Content-Type agree for the three formats
FormatsAgreeButFilename ==
    \A q \in Served :
        LET report == Val(requests[q].report_request)
        IN  /\ FormatOfGenerator(requests[q].response.content.generator) = report.format
            /\ FormatOfExtension(StoredExtension(report.file_path)) = report.format
            /\ FormatOfContentType(requests[q].response.content_type) = report.format
            /\ report.format # "excel" =>
                   FormatOfExtension(requests[q].response.extension) = report.format

-----------------------------------------------------------------------------
(* Claims about the views (checked under SpecViews) *)

\* the requests a step handled: the one it added to the log, or the one it
\* carried on with
Handled == {q \in DOMAIN requests' : q \notin DOMAIN requests \/ requests'[q] # requests[q]}

\* the requests a step added to the log
Arrived == {q \in DOMAIN requests' : q \notin DOMAIN requests}

ReportViewNames == {"create_report_request", "download_report", "delete_report"}

OwnedProjects(u) ==
    {id \in DOMAIN projects : ~IsNone(projects[id]) /\ Val(projects[id]).created_by = u}

OwnedExpenses(u) ==
    {e \in DOMAIN expenses : ~IsNone(expenses[e]) /\ Val(expenses[e]).project \in OwnedProjects(u)}

OwnedBookings(u) ==
    {b \in DOMAIN bookings : ~IsNone(bookings[b]) /\ Val(bookings[b]).sales_person = u}

OwnedReports(u) ==
    {r \in DOMAIN reports : ~IsNone(reports[r]) /\ Val(reports[r]).user = u}

\* everything a user owns, with its contents
Owned(u) ==
    [projects |-> {<<id, projects[id]>> : id \in OwnedProjects(u)},
     expenses |-> {<<e, expenses[e]>> : e \in OwnedExpenses(u)},
     bookings |-> {<<b, bookings[b]>> : b \in OwnedBookings(u)},
     reports |-> {<<r, reports[r]>> : r \in OwnedReports(u)},
     files |-> {f \in storage : f.name[1] \in OwnedReports(u)}]

OtherUsers(u) == Users \ {u}

\* the records of other users
ForeignProjects(u) == UNION {OwnedProjects(v) : v \in OtherUsers(u)}
ForeignExpenses(u) == UNION {OwnedExpenses(v) : v \in OtherUsers(u)}
ForeignBookings(u) == UNION {OwnedBookings(v) : v \in OtherUsers(u)}
ForeignReports(u) == UNION {OwnedReports(v) : v \in OtherUsers(u)}

ForeignShown(u) ==
    {<<"project", id>> : id \in ForeignProjects(u)}
    \cup {<<"expense", e>> : e \in ForeignExpenses(u)}
    \cup {<<"booking", b>> : b \in ForeignBookings(u)}

\* a step changes what a user owns only when it handles a request of that user
NoForeignWrite ==
    \A u \in Users :
        Owned(u)' # Owned(u) => \E q \in Handled : requests'[q].user = u

\* the response to a request shows no record of another user, and a file that
\* is served is the user's own
NoForeignRead ==
    \A q \in Arrived :
        LET r == requests'[q]
        IN  IF r.view \in ReportViewNames
            THEN r.response.kind = "content" =>
                     /\ r.report_id \notin ForeignReports(r.user)
                     /\ r.response.content.projects \cap ForeignProjects(r.user) = {}
            ELSE r.response.shown \cap ForeignShown(r.user) = {}

\* a report is made from no project of another user
NoForeignData ==
    \A f \in storage : \A u \in Users :
        f.name[1] \in OwnedReports(u) => f.content.projects \cap ForeignProjects(u) = {}

\* the request names, in its URL, a record of another user
NamesForeignInUrl(r) ==
    IF r.view \in ReportViewNames
    THEN r.view # "create_report_request" /\ r.report_id \in ForeignReports(r.user)
    ELSE \/ r.project_id \in ForeignProjects(r.user)
         \/ r.view \in {"expense_edit", "expense_delete"} /\ r.record_id \in ForeignExpenses(r.user)
         \/ r.view = "booking_delete" /\ r.record_id \in ForeignBookings(r.user)

\* the request names, in its project_ids, a project of another user
NamesForeignInForm(r) ==
    /\ r.view = "create_report_request"
    /\ ~IsNone(r.report_request)
    /\ \E i \in DOMAIN Val(r.report_request).project_ids :
           Val(r.report_request).project_ids[i] \in ForeignProjects(r.user)

TablesUnchanged == UNCHANGED <<projects, expenses, partners, bookings, reports, storage>>

Refused(r) == r.response.kind = "404" /\ TablesUnchanged

\* an expense is reached only through the project it belongs to
ExpenseThroughProject ==
    \A q \in Arrived :
        LET r == requests'[q]
        IN  (/\ r.view \in {"expense_edit", "expense_delete"}
             /\ r.record_id \in DOMAIN expenses
             /\ ~IsNone(expenses[r.record_id])
             /\ Val(expenses[r.record_id]).project # r.project_id)
            => Refused(r)

IsolationAsStated ==
    /\ NoForeignWrite
    /\ NoForeignRead
    /\ \A q \in Arrived :
           (NamesForeignInUrl(requests'[q]) \/ NamesForeignInForm(requests'[q]))
               => Refused(requests'[q])
    /\ ExpenseThroughProject

IsolationAmended ==
    /\ NoForeignWrite
    /\ NoForeignRead
    /\ \A q \in Arrived : NamesForeignInUrl(requests'[q]) => Refused(requests'[q])
    /\ ExpenseThroughProject

\* C12 as stated: no request of a user reads, modifies or deletes a project,
\* expense, booking or report of another user; a request that names a record
\* of another user gets a 404 and leaves all state unchanged; an expense is
\* reachable only through its project.
C12_IsolationAsStated == [][IsolationAsStated]_vars

\* C12 amended: as stated, where the 404 is for a request whose URL names a
\* record of another user; a report request that lists a project of another
\* user in project_ids is carried out, and its report is made from none of
\* that user's projects.
C12_Isolation == []NoForeignData /\ [][IsolationAmended]_vars

\* bob was refused alice's project, and his report request that listed
\* alice's project was completed with no project in it
C12_Witness ==
    \E q1 \in DOMAIN requests, q2 \in DOMAIN requests :
        /\ requests[q1].user = "bob"
        /\ requests[q1].view \in {"project_detail", "edit_project", "delete_project"}
        /\ requests[q1].project_id = 1
        /\ requests[q1].response.kind = "404"
        /\ requests[q2].user = "bob"
        /\ requests[q2].view = "create_report_request"
        /\ requests[q2].pc = "returned"
        /\ ~IsNone(requests[q2].report_request)
        /\ Val(requests[q2].report_request).project_ids = <<1>>
        /\ Val(requests[q2].report_request).status = "completed"
        /\ \E f \in storage : f.name = Val(requests[q2].report_request).file_path
                                /\ f.content.projects = {}

\* ---------------------------------------------------------------------------
\* Claims about the delete views

DeleteViewNames == {"delete_project", "expense_delete", "booking_delete"}

\* the ids of the rows that exist in a table
Live(table) == {i \in DOMAIN table : ~IsNone(table[i])}

\* a step that handles a request to a delete view whose method is not POST
\* leaves the projects, the expenses and the bookings as they were
NonPostDeletes ==
    \A q \in Handled :
        LET r == requests'[q]
        IN  (r.view \in DeleteViewNames /\ r.input # "POST")
                => /\ Live(projects') = Live(projects)
                   /\ Live(expenses') = Live(expenses)
                   /\ Live(bookings') = Live(bookings)
                   /\ UNCHANGED <<projects, expenses, bookings>>

\* C13: a request to delete_project, expense_delete or booking_delete whose
\* method is not POST leaves the sets of projects, expenses and bookings
\* unchanged
C13_NonPostDeletesNothing == [][NonPostDeletes]_vars

\* a GET of delete_project and a GET of expense_delete, each by the owner of
\* the record, were answered and the project and the expense are still there
C13_Witness ==
    /\ \E q \in DOMAIN requests :
          /\ requests[q].view = "delete_project" /\ requests[q].input = "GET"
          /\ requests[q].response.kind = "render"
          /\ requests[q].project_id \in Live(projects)
    /\ \E q \in DOMAIN requests :
          /\ requests[q].view = "expense_delete" /\ requests[q].input = "GET"
          /\ requests[q].response.kind = "redirect"
          /\ requests[q].record_id \in Live(expenses)

\* ---------------------------------------------------------------------------
\* Claims about create_project

\* the create_project requests that were answered with the project's page
\* (the redirect after partner_formset.save())
Created == {q \in DOMAIN requests :
               /\ requests[q].view = "create_project"
               /\ requests[q].response.kind = "redirect"}

\* a create_project request that is not answered with the redirect leaves the
\* projects and the partners as they were
FailedCreateLeavesNothing ==
    \A q \in Handled :
        LET r == requests'[q]
        IN  (r.view = "create_project" /\ r.response.kind # "redirect")
                => UNCHANGED <<projects, partners>>

\* C14: create_project is atomic with its partners: when the partner
\* information is invalid no new project remains, so submitting the form
\* again cannot give two projects
C14_CreateProjectAtomic == [][FailedCreateLeavesNothing]_vars

\* ---------------------------------------------------------------------------
\* Claims about the cost that project_detail stores (checked under SpecEVM)

\* the pages of project_detail that are still current: no expense was added
\* and the date did not change since
DetailPages == {id \in DOMAIN detail : ~IsNone(detail[id])}

\* the CPI shown is estimated_budget / total to the nearest hundredth, and
\* there is one exactly when both are positive
CpiFromTotal(cpi, estimated_budget, total) ==
    /\ ~IsNone(cpi) <=> (total > 0 /\ estimated_budget > 0)
    /\ ~IsNone(cpi) => 2 * Abs(Val(cpi) * total - 100 * estimated_budget) <= total

HostsRestored == settings'.ALLOWED_HOSTS = settings.ALLOWED_HOSTS

\* C19: a host that the middleware adds to ALLOWED_HOSTS while it processes a
\* request is no longer in the list once the request has been processed, so
\* ALLOWED_HOSTS keeps its configured value over any sequence of requests
C19_HostsRestored == [][HostsRestored]_vars

\* ---------------------------------------------------------------------------
\* Claims about get_buildings (checked under SpecBuildings)

\* the project a request asks for is one of the user's
AsksOwnProject(r) ==
    /\ ~IsNone(r.project)
    /\ \E id \in DOMAIN projects :
          /\ to_python(Val(r.project)) = Some(id)
          /\ ~IsNone(projects[id])
          /\ Val(projects[id]).created_by = r.user

\* the answer is the list of the buildings of the user's project, and the
\* empty list for every other request
ListsOwnBuildingsOnly(r) ==
    IF AsksOwnProject(r)
    THEN r.response = JsonResponse({b \in DOMAIN buildings :
                                       Some(buildings[b].project) = to_python(Val(r.project))})
    ELSE r.response = JsonResponse({})

\* C18: get_buildings returns exactly the buildings of the requested project
\* when the requesting user owns it and an empty list otherwise, so that the
\* answer for a project of another user is the answer for a project that does
\* not exist
C18_OwnBuildingsOrEmpty ==
    \A q \in DOMAIN requests :
        requests[q].view = "get_buildings" => ListsOwnBuildingsOnly(requests[q])

\* the part of C18 that holds: whenever the parameter is the id of a project
\* of another user or an id without a project, the answer is the empty list
ForeignAsMissing ==
    \A q \in DOMAIN requests :
        LET r == requests[q]
        IN  (~IsNone(r.project) /\ ~IsNone(to_python(Val(r.project))) /\ ~AsksOwnProject(r))
                => r.response = JsonResponse({})

\* ---------------------------------------------------------------------------
\* Claims about settings_view (checked under SpecSettings)

\* the request is a POST of the account form that supplies a non-empty new
\* password, the current password as it is stored, a confirmation equal to
\* the new password, and a new password of at least 8 characters
SuppliesPasswordChange(r) ==
    /\ ~IsNone(r.input)
    /\ LET form == Val(r.input)
       IN  /\ form.form_type = "account"
           /\ form.new_password # ""
           /\ form.current_password = users[r.name].password.raw
           /\ form.new_password = form.confirm_password
           /\ Len(form.new_password) >= 8

\* the step of a settings request of a logged-in user changes the stored
\* password of that user exactly when the form supplies the change, the new
\* stored password is the one supplied, the session of the request is
\* authenticated afterwards, and no other user's password is touched
PasswordStep ==
    \A q \in Arrived :
        LET r == requests'[q]
        IN  r.view = "settings_view" =>
                /\ (users'[r.name].password # users[r.name].password)
                       <=> (Authenticated(r.session) /\ SuppliesPasswordChange(r))
                /\ (users'[r.name].password # users[r.name].password)
                       => /\ users'[r.name].password.raw = Val(r.input).new_password
                          /\ sessions'[r.session].hash = users'[r.name].password
                /\ \A v \in Users \ {r.name} : users'[v].password = users[v].password

SetThroughView(name) ==
    \E q \in DOMAIN requests :
        /\ requests[q].view = "settings_view"
        /\ requests[q].name = name
        /\ requests[q].pc = "returned"
        /\ "email updated" \in requests[q].response.messages
        /\ requests[q].user.email = users[name].email

\* C16: after any sequence of account-settings requests, interleaved ones of
\* different users included, no two distinct users have the same email
\* address when one of them set it through settings_view
C16_EmailsDistinct ==
    \A u, v \in Users :
        (u # v /\ users[u].email = users[v].email) => ~(SetThroughView(u) \/ SetThroughView(v))

\* ---------------------------------------------------------------------------
\* Claims about the monthly series of the dashboards (checked under SpecCharts)

\* the calendar month k months before a month
MonthsBefore(m, k) ==
    LET index == m.year * 12 + (m.month - 1) - k
    IN  [year |-> index \div 12, month |-> (index % 12) + 1]

\* six consecutive calendar months that end with the month of today, the
\* oldest first
LastSixMonths(n) == [k \in 1..6 |-> MonthsBefore(month_name(n), 6 - k)]

\* the months of the series a dashboard last computed
SeriesMonths(v) ==
    IF v = "home"
    THEN [k \in 1..6 |-> Val(charts[v]).cash_flow_data[k].month]
    ELSE Val(charts[v])

\* C17: for every current date the six entries of each dashboard's monthly
\* series are six distinct consecutive calendar months ending with the
\* current month, listed oldest to newest
C17_LastSixMonths ==
    \A v \in ChartViews : ~IsNone(charts[v]) => SeriesMonths(v) = LastSixMonths(now)

\* the same for the main dashboard alone
HomeLastSixMonths == ~IsNone(charts["home"]) => SeriesMonths("home") = LastSixMonths(now)

\* the same for the accounts, sales and material dashboards
DashboardsLastSixMonths ==
    \A v \in ChartViews \ {"home"} : ~IsNone(charts[v]) => SeriesMonths(v) = LastSixMonths(now)

\* ---------------------------------------------------------------------------
\* Claims about project_detail beside edit_project (checked under
\* SpecDetailOverlap)

\* the projects that an edit_project request has saved
Edited == {requests[q].project_id : q \in {i \in DOMAIN requests :
               /\ requests[i].view = "edit_project"
               /\ requests[i].response.kind = "redirect"}}

\* every request has returned
AllReturned == \A q \in DOMAIN requests : requests[q].pc = "returned"

\* C21: a project_detail request that interleaves with an edit_project
\* request on the same project never undoes the edit: when both have
\* finished, the fields the edit wrote hold the edited values
C21_EditSurvives ==
    AllReturned =>
        \A id \in Edited : Val(projects[id]).estimated_budget = NewBudget

\* ---------------------------------------------------------------------------
\* Claims about the cash-flow series of the main dashboard (checked under
\* SpecCashFlow)

\* the sum of one column over the six entries
RECURSIVE ColumnSum(_, _)
ColumnSum(data, column) ==
    IF data = <<>> THEN 0 ELSE Head(data)[column] + ColumnSum(Tail(data), column)

\* every expense of the user's projects, and every completed payment
AllExpenses(user) ==
    {e \in DOMAIN expenses : ~IsNone(expenses[e]) /\ Val(expenses[e]).project \in user_projects(user)}

AllCompletedPayments(user) ==
    {i \in DOMAIN payments :
        /\ ~IsNone(payments[i])
        /\ Val(payments[i]).project \in user_projects(user)
        /\ Val(payments[i]).status = "completed"}

\* C22: in the cash-flow series of the main dashboard each expense and each
\* completed payment is counted in at most one of the six entries, so the sum
\* of the six 'expenses' values never exceeds the total of the user's
\* expenses, nor the sum of the 'income' values the total of the user's
\* completed payments
C22_CountedAtMostOnce ==
    ~IsNone(charts["home"]) =>
        LET page == Val(charts["home"])
        IN  /\ ColumnSum(page.cash_flow_data, "expenses") <= SumAmounts(AllExpenses(page.user))
            /\ ColumnSum(page.cash_flow_data, "income")
                   <= SumPayments(AllCompletedPayments(page.user))

====
